---------------------------- MODULE Spec2Model ----------------------------
(***************************************************************************)
(* Identity and access core of the application hub: the request rate       *)
(* limiter (core/rate_limit.py), the OAuth2 provider endpoints             *)
(* (api/oauth.py), the application listing (api/applications.py) and the   *)
(* admin mutations with their audit trail (api/admin.py,                   *)
(* services/audit_service.py).                                             *)
(***************************************************************************)
EXTENDS Integers, Sequences, FiniteSets, TLC

(***************************************************************************)
(* Bounds of the model.                                                    *)
(***************************************************************************)
\* clock resolution of time.time(): readings per second
TicksPerSecond == 2
\* the limiter clock is explored around the first MaxWindows window ends
MaxWindows == 2
\* ... and Slack ticks before and after each of them
Slack == 1
\* requests suspended in call_next at the same time
MaxInFlight == 1
\* authorization codes issued in one behaviour
MaxCodes == 1
\* token requests in progress at the same time
MaxTasks == 2
\* tokens minted in one behaviour before refreshing stops
MaxTokens == 3
\* groups created in one behaviour
MaxGroups == 1
\* audit_logs rows written in one behaviour
MaxAudit == 2

VARIABLES
    requests,     \* RateLimitMiddleware.requests: ip -> limit_key -> <<count, window_start>>
    now,          \* the reading of time.time(), in ticks
    inflight,     \* requests admitted by dispatch and suspended in call_next
    last,         \* the outcome of the latest dispatch
    load,         \* the (client ip, path) pairs that send requests in this behaviour
    admits,       \* history: per (ip, limit_key) and tick, the requests the limiter admitted
    alone         \* history: the table and the answers of the limiter had one client sent alone

limVars == <<requests, now, inflight, last, load, admits, alone>>

VARIABLES
    applications, \* applications table: id -> row
    users,        \* users table: id -> row
    groups,       \* user_groups with user_group_members: id -> [name, members]
    access,       \* application_access rows
    audit_logs,   \* audit_logs rows, oldest first
    oauth_codes,  \* oauth_codes rows
    oauth_tokens, \* oauth_tokens rows
    issued,       \* number of codes, tokens and group ids generated so far
    clock,        \* the database clock, in minutes
    tasks,        \* POST /oauth/token requests suspended inside the code exchange
    resp,         \* the latest response of an endpoint, with the request it answers
    codelog,      \* history: code -> the request that issued it and the redemptions of it
    revoked,      \* history: the tokens whose owner has revoked them
    login_history \* login_history rows, oldest first

adminVars == <<applications, users, groups, access, audit_logs>>
oauthVars == <<oauth_codes, oauth_tokens, issued, clock, tasks, resp, codelog, revoked>>
storeVars == <<adminVars, oauthVars, login_history>>

vars == <<limVars, storeVars>>

(***************************************************************************)
(* The credential store and what the OAuth service keeps in it.            *)
(***************************************************************************)
\* Python's None
None == "None"

\* a NULL timestamp column (consumed_at, revoked_at)
NULL == -1

\* the value of the n-th authorization code and of the n-th token the service
\* generates (secrets.token_urlsafe: distinct, and unknown to who was not given it)
code_value(n) == "code" \o ToString(n)
token_value(n) == "tok" \o ToString(n)

\* Python truthiness of an optional string
truthy(x) == x # None /\ x # ""

\* oauth_service.hash_secret: a password hash of the secret
hash_secret(secret) == <<"pwhash", secret>>

\* oauth_service.verify_secret(secret, hash)
verify_secret(secret, hash) == secret # None /\ hash_secret(secret) = hash

\* BASE64URL(SHA-256(verifier)) on the verifiers of the model
S256(verifier) ==
    CASE verifier = "v1" -> "h1"
      [] verifier = "v2" -> "h2"
      [] verifier = "h1" -> "h3"
      [] OTHER -> "h0"

\* the clients an administrator has provisioned: A and B active, C deactivated
ProvisionedApps ==
    [a \in {"A", "B", "C"} |->
        [client_id |-> IF a = "A" THEN "cA" ELSE IF a = "B" THEN "cB" ELSE "cC",
         client_secret_hash |-> hash_secret(IF a = "A" THEN "sA"
                                            ELSE IF a = "B" THEN "sB" ELSE "sC"),
         redirect_uris |-> IF a = "A" THEN {"https://a/cb"}
                           ELSE IF a = "B" THEN {"https://b/cb"} ELSE {"https://c/cb"},
         is_active |-> a # "C",
         is_public |-> a = "B",
         allowed_departments |-> IF a = "A" THEN {"IT"} ELSE {}]]

\* the users the SSO callback has created
ProvisionedUsers ==
    [u \in {"adm", "u1", "u2"} |->
        [department |-> IF u = "u2" THEN "Finance" ELSE "IT",
         is_admin |-> u = "adm",
         is_active |-> TRUE]]

NoResp == [endpoint |-> "none"]

InitStore ==
    /\ applications = ProvisionedApps
    /\ users = ProvisionedUsers
    /\ groups = <<>>
    /\ access = {}
    /\ audit_logs = <<>>
    /\ oauth_codes = {}
    /\ oauth_tokens = {}
    /\ issued = [codes |-> 0, tokens |-> 0, groups |-> 0]
    /\ clock = 0
    /\ tasks = <<>>
    /\ resp = NoResp
    /\ codelog = <<>>
    /\ revoked = {}
    /\ login_history = <<>>

(***************************************************************************)
(* core/rate_limit.py                                                      *)
(***************************************************************************)
IPs == {"ip1", "ip2"}

\* a path is the sequence of its segments: <<"auth", "login">> is /auth/login
Paths == { <<>>, <<"health">>, <<"auth", "login">>, <<"oauth", "token">>,
           <<"api", "admin", "users">>, <<"api", "applications">> }

LimitKeys == {"/auth/", "/oauth/token", "/api/admin/", "default"}

\* self.limits: limit_key -> (max_requests, window_seconds)
limits == ("/auth/" :> <<10, 60>>) @@ ("/oauth/token" :> <<20, 60>>) @@
          ("/api/admin/" :> <<100, 60>>) @@ ("default" :> <<200, 60>>)

max_requests(limit_key) == limits[limit_key][1]

\* window_seconds of a class, in ticks of the clock
window_ticks(limit_key) == limits[limit_key][2] * TicksPerSecond

\* max(limit[1] for limit in self.limits.values())
max_window == CHOOSE w \in {limits[k][2] : k \in LimitKeys} :
                  \A k \in LimitKeys : limits[k][2] <= w

\* dispatch: path in ('/', '/health', '/docs', '/openapi.json')
exempt(path) == path \in { <<>>, <<"health">>, <<"docs">>, <<"openapi.json">> }

get_limit_key(path) ==
    IF Len(path) >= 2 /\ path[1] = "auth" THEN "/auth/"
    ELSE IF path = <<"oauth", "token">> THEN "/oauth/token"
    ELSE IF Len(path) >= 3 /\ path[1] = "api" /\ path[2] = "admin" THEN "/api/admin/"
    ELSE "default"

\* self.requests[client_ip] of a defaultdict(dict): reading a missing ip adds an empty dict
touch(reqs, client_ip) ==
    IF client_ip \in DOMAIN reqs THEN reqs
    ELSE [i \in DOMAIN reqs \cup {client_ip} |-> IF i = client_ip THEN <<>> ELSE reqs[i]]

\* a variant with one entry per class, shared by all clients
put_every_client(reqs, client_ip, limit_key, entry) ==
    [i \in DOMAIN reqs |->
        [k \in DOMAIN reqs[i] \cup {limit_key} |->
            IF k = limit_key THEN entry ELSE reqs[i][k]]]

\* self.requests[client_ip][limit_key] = entry
put(reqs, client_ip, limit_key, entry) ==
    [reqs EXCEPT ![client_ip] =
        [k \in DOMAIN reqs[client_ip] \cup {limit_key} |->
            IF k = limit_key THEN entry ELSE reqs[client_ip][k]]]

\* int(window_seconds - (now - window_start)) + 1, the clock read in ticks
retry_after_of(limit_key, t, window_start) ==
    ((window_ticks(limit_key) - (t - window_start)) \div TicksPerSecond) + 1

\* a variant that rejects one request late (count <= max_requests)
check_rate_limit_late_reject(reqs, client_ip, limit_key, t) ==
    LET r0 == touch(reqs, client_ip) IN
    IF limit_key \notin DOMAIN r0[client_ip]
    THEN [allowed |-> TRUE, retry_after |-> 0, reqs |-> put(r0, client_ip, limit_key, <<1, t>>)]
    ELSE LET count == r0[client_ip][limit_key][1]
             window_start == r0[client_ip][limit_key][2]
         IN  IF t - window_start > window_ticks(limit_key)
             THEN [allowed |-> TRUE, retry_after |-> 0,
                   reqs |-> put(r0, client_ip, limit_key, <<1, t>>)]
             ELSE IF count <= max_requests(limit_key)
             THEN [allowed |-> TRUE, retry_after |-> 0,
                   reqs |-> put(r0, client_ip, limit_key, <<count + 1, window_start>>)]
             ELSE [allowed |-> FALSE,
                   retry_after |-> retry_after_of(limit_key, t, window_start),
                   reqs |-> r0]

\* RateLimitMiddleware._check_rate_limit: (is_allowed, retry_after) and the table it leaves
check_rate_limit(reqs, client_ip, limit_key, t) ==
    LET r0 == touch(reqs, client_ip) IN
    IF limit_key \notin DOMAIN r0[client_ip]
    THEN [allowed |-> TRUE, retry_after |-> 0, reqs |-> put(r0, client_ip, limit_key, <<1, t>>)]
    ELSE LET count == r0[client_ip][limit_key][1]
             window_start == r0[client_ip][limit_key][2]
         IN  IF t - window_start > window_ticks(limit_key)
             THEN [allowed |-> TRUE, retry_after |-> 0,
                   reqs |-> put(r0, client_ip, limit_key, <<1, t>>)]
             ELSE IF count < max_requests(limit_key)
             THEN [allowed |-> TRUE, retry_after |-> 0,
                   reqs |-> put(r0, client_ip, limit_key, <<count + 1, window_start>>)]
             ELSE [allowed |-> FALSE,
                   retry_after |-> retry_after_of(limit_key, t, window_start),
                   reqs |-> r0]

\* a variant that removes every entry
cleanup_all_entries(reqs, t) == <<>>

\* RateLimitMiddleware._cleanup_old_entries
cleanup_old_entries(reqs, t) ==
    LET kept(i) == {k \in DOMAIN reqs[i] :
                        ~(t - reqs[i][k][2] > max_window * 2 * TicksPerSecond)}
        live == {i \in DOMAIN reqs : kept(i) # {}}
    IN  [i \in live |-> [k \in kept(i) |-> reqs[i][k]]]

NoResponse == [ip |-> "", key |-> "", status |-> 0, retry_after |-> 0]

\* the clock readings the model explores: Slack ticks around each window end
Instants == {w * limits["default"][2] * TicksPerSecond + j :
                w \in 0..MaxWindows, j \in (0 - Slack)..Slack} \cap Nat

\* the traffic of one behaviour: one client on one route class and an exempt path
Workloads ==
    { {<<"ip1", p>>, <<"ip1", <<"health">> >>} :
         p \in Paths \ { <<>>, <<"health">> } }
    \cup { {<<"ip2", <<"auth", "login">> >>, <<"ip2", <<>> >>} }

InitLimiter ==
    /\ requests = <<>>
    /\ now = 0
    /\ inflight = 0
    /\ last = NoResponse
    /\ load \in Workloads
    /\ admits = <<>>
    /\ alone = <<>>
    /\ InitStore

\* time passes between two requests
Tick ==
    /\ \E t \in Instants : t > now /\ now' = t
    /\ UNCHANGED <<storeVars, requests, inflight, last, load, admits, alone>>

\* a variant in which a rejection restarts the window of the entry
Limited_restarting(client_ip, path, sweep) ==
    LET limit_key == get_limit_key(path)
        res == check_rate_limit(requests, client_ip, limit_key, now)
    IN  /\ last' = [ip |-> client_ip, key |-> limit_key,
                    status |-> IF res.allowed THEN 200 ELSE 429,
                    retry_after |-> res.retry_after]
        /\ IF res.allowed
           THEN /\ inflight < MaxInFlight
                /\ inflight' = inflight + 1
                /\ requests' = IF sweep THEN cleanup_old_entries(res.reqs, now)
                               ELSE res.reqs
           ELSE /\ sweep = FALSE
                /\ inflight' = inflight
                /\ requests' = put(res.reqs, client_ip, limit_key,
                                   <<res.reqs[client_ip][limit_key][1], now>>)

\* RateLimitMiddleware.dispatch up to its first suspension (await call_next): the
\* limiter part runs without an await, so no other task runs inside it
Limited(client_ip, path, sweep) ==
    LET limit_key == get_limit_key(path)
        res == check_rate_limit(requests, client_ip, limit_key, now)
    IN  /\ last' = [ip |-> client_ip, key |-> limit_key,
                    status |-> IF res.allowed THEN 200 ELSE 429,
                    retry_after |-> res.retry_after]
        /\ IF res.allowed
           THEN /\ inflight < MaxInFlight
                /\ inflight' = inflight + 1
                /\ requests' = IF sweep THEN cleanup_old_entries(res.reqs, now)
                               ELSE res.reqs
           ELSE /\ sweep = FALSE
                /\ inflight' = inflight
                /\ requests' = res.reqs

Dispatch(client_ip, path, sweep) ==
    /\ <<client_ip, path>> \in load
    /\ ~exempt(path)
    /\ Limited(client_ip, path, sweep)
    /\ UNCHANGED <<storeVars, now, load, admits, alone>>

\* dispatch of an exempt path: call_next without a look at the table
DispatchExempt(client_ip, path) ==
    /\ <<client_ip, path>> \in load
    /\ exempt(path)
    /\ inflight < MaxInFlight
    /\ inflight' = inflight + 1
    /\ last' = [ip |-> client_ip, key |-> "exempt", status |-> 200, retry_after |-> 0]
    /\ UNCHANGED <<storeVars, requests, now, load, admits, alone>>

\* call_next returns and dispatch returns its response
Complete ==
    /\ inflight > 0
    /\ inflight' = inflight - 1
    /\ UNCHANGED <<storeVars, requests, now, last, load, admits, alone>>

NextLimiter ==
    \/ Tick
    \/ \E i \in IPs, p \in Paths, s \in BOOLEAN : Dispatch(i, p, s)
    \/ \E i \in IPs, p \in Paths : DispatchExempt(i, p)
    \/ Complete

SpecLimiter == InitLimiter /\ [][NextLimiter]_vars

(***************************************************************************)
(* The limiter with the history of its admissions, for one client of the   *)
(* /auth/ class.                                                           *)
(***************************************************************************)
AuthClient == <<"ip1", <<"auth", "login">> >>

NoAdmits == [c \in {<<AuthClient[1], get_limit_key(AuthClient[2])>>} |->
                [t \in Instants |-> 0]]

InitWindow ==
    /\ requests = <<>>
    /\ now = 0
    /\ inflight = 0
    /\ last = NoResponse
    /\ load = {AuthClient}
    /\ admits = NoAdmits
    /\ alone = <<>>
    /\ InitStore

\* the history keeps the admissions an interval of one window that reaches the
\* present can still hold
TickLogged ==
    /\ \E t \in Instants : t > now /\ now' = t
    /\ admits' = [c \in DOMAIN admits |->
                    [u \in Instants |->
                        IF u + window_ticks(c[2]) > now' THEN admits[c][u] ELSE 0]]
    /\ UNCHANGED <<storeVars, requests, inflight, last, load, alone>>

DispatchLogged(client_ip, path, sweep) ==
    /\ <<client_ip, path>> \in load
    /\ ~exempt(path)
    /\ Limited(client_ip, path, sweep)
    /\ admits' = IF last'.status = 200
                 THEN [admits EXCEPT ![<<client_ip, get_limit_key(path)>>][now] = @ + 1]
                 ELSE admits
    /\ UNCHANGED <<storeVars, now, load, alone>>

CompleteLogged ==
    /\ inflight > 0
    /\ inflight' = inflight - 1
    /\ UNCHANGED <<storeVars, requests, now, last, load, admits, alone>>

NextWindow ==
    \/ TickLogged
    \/ \E i \in IPs, p \in Paths, s \in BOOLEAN : DispatchLogged(i, p, s)
    \/ CompleteLogged

SpecWindow == InitWindow /\ [][NextWindow]_vars

(***************************************************************************)
(* Claims about the limiter.                                               *)
(***************************************************************************)
HasEntry(i, k) == i \in DOMAIN requests /\ k \in DOMAIN requests[i]

\* the class budget of (i, k) is used up and its window has not expired
Saturated(i, k) ==
    /\ HasEntry(i, k)
    /\ requests[i][k][1] >= max_requests(k)
    /\ now - requests[i][k][2] <= window_ticks(k)

\* a step in which dispatch admits a request of client i in class k
AdmitStep(i, k) == inflight' = inflight + 1 /\ last'.ip = i /\ last'.key = k

\* a step in which dispatch answers a request of client i in class k
AnswerStep(i, k) == last' # last /\ last'.ip = i /\ last'.key = k

CountWithinBudget ==
    \A i \in IPs, k \in LimitKeys :
        HasEntry(i, k) => requests[i][k][1] \in 1..max_requests(k)

SaturatedRejects ==
    \A i \in IPs, k \in LimitKeys :
        /\ Saturated(i, k) =>
              /\ ~AdmitStep(i, k)
              /\ HasEntry(i, k)' /\ requests'[i][k] = requests[i][k]
              /\ AnswerStep(i, k) => last'.status = 429
        /\ AdmitStep(i, k) =>
              /\ HasEntry(i, k)'
              /\ requests'[i][k] =
                    IF HasEntry(i, k) /\ now - requests[i][k][2] <= window_ticks(k)
                    THEN <<requests[i][k][1] + 1, requests[i][k][2]>>
                    ELSE <<1, now>>

\* C6: once the limiter has admitted the class budget of an (ip, class) in the
\* current window, every further request of that ip and class arriving within the
\* window is rejected with 429 and leaves the entry as it is; every admission is
\* counted (the count grows by exactly one, or a new window starts at 1), and the
\* count never exceeds the budget.
C6_BudgetEnforced == []CountWithinBudget /\ [][SaturatedRejects]_vars

\* the 21st POST /oauth/token of a window is answered 429
C6_Witness ==
    /\ last.status = 429 /\ last.key = "/oauth/token"
    /\ Saturated(last.ip, "/oauth/token")
    /\ requests[last.ip]["/oauth/token"][1] = 20

RECURSIVE SumOver(_, _)
SumOver(f, S) ==
    IF S = {} THEN 0
    ELSE LET x == CHOOSE y \in S : TRUE IN f[x] + SumOver(f, S \ {x})

\* the requests of (i, k) admitted at the ticks t with from <= t < from + one window
AdmittedIn(c, from) ==
    SumOver(admits[c], {u \in Instants : from <= u /\ u < from + window_ticks(c[2])})

\* C7: in every interval of 60 consecutive seconds, wherever it starts, the limiter
\* admits at most the class budget of requests of one ip and class.
C7_SlidingWindowBudget ==
    \A c \in DOMAIN admits, from \in Instants :
        AdmittedIn(c, from) <= max_requests(c[2])

(***************************************************************************)
(* api/oauth.py: GET /oauth/authorize                                      *)
(***************************************************************************)
\* oauth_service.get_application_by_client_id: the active application of that client_id
get_application_by_client_id(apps, client_id) ==
    LET found == {a \in DOMAIN apps : apps[a].client_id = client_id /\ apps[a].is_active}
    IN  IF found = {} THEN None ELSE CHOOSE a \in found : TRUE

\* oauth_service.validate_redirect_uri: exact membership in the registered URIs
validate_redirect_uri(application, redirect_uri) ==
    redirect_uri \in application.redirect_uris

\* settings: lifetime of an authorization code, in minutes
CodeLifetime == 10

\* a variant that does not store the client's state
new_code_row_without_state(n, user, app, redirect_uri, scopes, state, code_challenge, method, t) ==
    [code |-> n, user |-> user, app |-> app, redirect_uri |-> redirect_uri,
     scopes |-> scopes, state |-> None, code_challenge |-> code_challenge,
     code_challenge_method |-> method,
     expires_at |-> t + CodeLifetime, consumed_at |-> NULL]

\* oauth_service.create_authorization_code: the row it persists
new_code_row(n, user, app, redirect_uri, scopes, state, code_challenge, method, t) ==
    [code |-> n, user |-> user, app |-> app, redirect_uri |-> redirect_uri,
     scopes |-> scopes, state |-> state, code_challenge |-> code_challenge,
     code_challenge_method |-> method,
     expires_at |-> t + CodeLifetime, consumed_at |-> NULL]

\* state or ''
or_empty(x) == IF truthy(x) THEN x ELSE ""

\* RedirectResponse(url=f"{redirect_uri}?error=...&state=...")
error_redirect(req, error) ==
    [endpoint |-> "authorize", req |-> req, status |-> 307,
     location |-> req.redirect_uri,
     query |-> [error |-> error, state |-> or_empty(req.state)]]

\* a variant that defaults to S256
effective_method_s256(code_challenge, code_challenge_method) ==
    IF truthy(code_challenge) /\ ~truthy(code_challenge_method)
    THEN "S256" ELSE code_challenge_method

\* the code_challenge_method authorize goes on with (lines 66-68)
effective_method(code_challenge, code_challenge_method) ==
    IF truthy(code_challenge) /\ ~truthy(code_challenge_method)
    THEN "plain" ELSE code_challenge_method

\* the characters of a URL that urllib.parse.quote_plus escapes, and their escapes
Escapes ==
    (":" :> "%3A") @@ ("/" :> "%2F") @@ ("?" :> "%3F") @@ ("&" :> "%26")
        @@ ("=" :> "%3D") @@ (" " :> "+")

\* the text of a value: a sequence of its reserved characters and of the pieces
\* between them
text_of(v) ==
    IF v = "https://a/cb" THEN <<"https", ":", "/", "/", "a", "/", "cb">>
    ELSE IF v = "https://a/cb/" THEN <<"https", ":", "/", "/", "a", "/", "cb", "/">>
    ELSE IF v = "https://evil/cb" THEN <<"https", ":", "/", "/", "evil", "/", "cb">>
    ELSE IF v = "" THEN <<>>
    ELSE <<v>>

\* the text of a scope string: its scopes, separated by one space
RECURSIVE scope_text(_)
scope_text(scopes) ==
    IF scopes = <<>> THEN <<>>
    ELSE IF Len(scopes) = 1 THEN <<Head(scopes)>>
    ELSE <<Head(scopes), " ">> \o scope_text(Tail(scopes))

\* urllib.parse.quote_plus: every reserved character is escaped
quote_plus(text) ==
    [i \in DOMAIN text |-> IF text[i] \in DOMAIN Escapes THEN Escapes[text[i]] ELSE text[i]]

\* urllib.parse.unquote_plus: every escape is turned back into its character
unquote_plus(text) ==
    [i \in DOMAIN text |->
        IF \E c \in DOMAIN Escapes : Escapes[c] = text[i]
        THEN CHOOSE c \in DOMAIN Escapes : Escapes[c] = text[i]
        ELSE text[i]]

\* urllib.parse.urlencode of the items of a dict, in insertion order
RECURSIVE urlencode(_)
urlencode(items) ==
    IF items = <<>> THEN <<>>
    ELSE quote_plus(<<Head(items)[1]>>) \o <<"=">> \o quote_plus(Head(items)[2])
            \o (IF Len(items) > 1 THEN <<"&">> \o urlencode(Tail(items)) ELSE <<>>)

\* oauth_params_dict of the anonymous branch (lines 86-95)
oauth_params_dict(req, method) ==
    << <<"response_type", text_of(req.response_type)>>,
       <<"client_id", text_of(req.client_id)>>,
       <<"redirect_uri", text_of(req.redirect_uri)>>,
       <<"scope", scope_text(req.scope)>>,
       <<"state", text_of(or_empty(req.state))>> >>
        \o (IF truthy(req.code_challenge)
            THEN << <<"code_challenge", text_of(req.code_challenge)>>,
                    <<"code_challenge_method", text_of(method)>> >>
            ELSE <<>>)

\* return_url = f"/oauth/authorize?{oauth_params}"
return_url(req, method) ==
    <<"/", "oauth", "/", "authorize", "?">> \o urlencode(oauth_params_dict(req, method))

\* the query of the Location the anonymous branch answers with:
\* f"/auth/sso/login?redirect_to={return_url}"
login_query(req, method) == <<"redirect_to", "=">> \o return_url(req, method)

\* the position of the first occurrence of a character in a text, 0 if none
first_index(text, c) ==
    IF \E i \in DOMAIN text : text[i] = c
    THEN CHOOSE i \in DOMAIN text : text[i] = c /\ \A j \in 1..(i - 1) : text[j] # c
    ELSE 0

\* the query of a URL: what follows its first "?"
query_of(url) ==
    IF first_index(url, "?") = 0 THEN <<>>
    ELSE SubSeq(url, first_index(url, "?") + 1, Len(url))

\* urllib.parse.parse_qsl: the fields of a query, separated at every "&"; each
\* is a name and a value, separated at its first "=" and unescaped
RECURSIVE parse_qsl(_)
parse_qsl(query) ==
    LET parse_field(field) ==
            IF first_index(field, "=") = 0 THEN <<unquote_plus(field), <<>>>>
            ELSE <<unquote_plus(SubSeq(field, 1, first_index(field, "=") - 1)),
                   unquote_plus(SubSeq(field, first_index(field, "=") + 1, Len(field)))>>
    IN  IF query = <<>> THEN <<>>
        ELSE IF first_index(query, "&") = 0 THEN <<parse_field(query)>>
        ELSE <<parse_field(SubSeq(query, 1, first_index(query, "&") - 1))>>
                \o parse_qsl(SubSeq(query, first_index(query, "&") + 1, Len(query)))

\* the value a route reads for a query parameter: that of the first field of
\* that name, the empty text if there is none
query_param(query, name) ==
    LET fields == parse_qsl(query)
    IN  IF \E i \in DOMAIN fields : fields[i][1] = <<name>>
        THEN fields[CHOOSE i \in DOMAIN fields :
                        /\ fields[i][1] = <<name>>
                        /\ \A j \in 1..(i - 1) : fields[j][1] # <<name>>][2]
        ELSE <<>>

\* the response of authorize, and the code row it creates (none or one)
authorize(req, apps, n, t) ==
    IF req.response_type # "code"
    THEN [resp |-> error_redirect(req, "unsupported_response_type"), rows |-> {}]
    ELSE IF truthy(req.code_challenge_method)
            /\ req.code_challenge_method \notin {"S256", "plain"}
    THEN [resp |-> error_redirect(req, "invalid_request"), rows |-> {}]
    ELSE
    LET method == effective_method(req.code_challenge, req.code_challenge_method)
        application == get_application_by_client_id(apps, req.client_id)
    IN  IF application = None
        THEN [resp |-> error_redirect(req, "invalid_client"), rows |-> {}]
        ELSE IF ~validate_redirect_uri(apps[application], req.redirect_uri)
        THEN [resp |-> [endpoint |-> "authorize", req |-> req, status |-> 400,
                        location |-> None, query |-> [detail |-> "Invalid redirect_uri"]],
              rows |-> {}]
        ELSE IF req.current_user = None
        THEN [resp |-> [endpoint |-> "authorize", req |-> req, status |-> 307,
                        location |-> "/auth/sso/login",
                        query |-> login_query(req, method)],
              rows |-> {}]
        ELSE [resp |-> [endpoint |-> "authorize", req |-> req, status |-> 307,
                        location |-> req.redirect_uri,
                        query |-> IF truthy(req.state)
                                  THEN [code |-> n, state |-> req.state]
                                  ELSE [code |-> n]],
              rows |-> {new_code_row(n, req.current_user, application, req.redirect_uri,
                                     IF req.scope # <<>> THEN req.scope ELSE <<"openid">>,
                                     req.state, req.code_challenge, method, t)}]

AuthorizeRequest(response_type, client_id, redirect_uri, state, challenge, method, user) ==
    [response_type |-> response_type, client_id |-> client_id,
     redirect_uri |-> redirect_uri, scope |-> <<"openid">>, state |-> state,
     code_challenge |-> challenge, code_challenge_method |-> method,
     current_user |-> user]

\* the history of a code: the request it was issued to, the requests that redeemed
\* it, and whether a redemption of the live code was refused
log_issue(log, rows, req) ==
    [c \in DOMAIN log \cup {r.code : r \in rows} |->
        IF c \in DOMAIN log THEN log[c]
        ELSE [issued_to |-> req, redemptions |-> <<>>, refused |-> FALSE]]

\* GET /oauth/authorize
Authorize(req) ==
    LET out == authorize(req, applications, code_value(issued.codes + 1), clock)
    IN  /\ resp' = out.resp
        /\ IF out.rows = {}
           THEN UNCHANGED <<oauth_codes, issued>>
           ELSE /\ issued.codes < MaxCodes
                /\ oauth_codes' = oauth_codes \cup out.rows
                /\ issued' = [issued EXCEPT !.codes = @ + 1]
        /\ codelog' = log_issue(codelog, out.rows, req)
        /\ UNCHANGED <<limVars, login_history, adminVars, oauth_tokens, clock, tasks, revoked>>

\* (state, code_challenge, code_challenge_method) of the requests the model sends
PkceParams ==
    { <<None, None, None>>, <<"st", "h1", "S256">>, <<"st", "h1", None>>,
      <<None, None, "S256">>, <<None, "h1", "S512">> }

\* the requests of the authorization endpoint the model sends
AuthorizeRequests ==
    { AuthorizeRequest(rt, c, u, p[1], p[2], p[3], usr) :
        rt \in {"code", "token"}, c \in {"cA", "cC", "cX"},
        u \in {"https://a/cb", "https://a/cb/", "https://evil/cb"},
        p \in PkceParams, usr \in {None, "u1"} }

InitAuthorize ==
    /\ InitStore
    /\ requests = <<>> /\ now = 0 /\ inflight = 0 /\ last = NoResponse
    /\ load = {} /\ admits = <<>> /\ alone = <<>>

NextAuthorize == \E req \in AuthorizeRequests : Authorize(req)

SpecAuthorize == InitAuthorize /\ [][NextAuthorize]_vars

\* the request's client_id names an active application that has registered its redirect_uri
Trusted(req) ==
    \E a \in DOMAIN applications :
        /\ applications[a].client_id = req.client_id
        /\ applications[a].is_active
        /\ req.redirect_uri \in applications[a].redirect_uris

\* C2: authorize never answers with a redirect to the request's redirect_uri unless
\* client_id is that of an active application and redirect_uri is one of its
\* registered URIs; a failure detected before that is answered with a direct 4xx.
C2_NoRedirectToUntrusted ==
    resp.endpoint = "authorize" =>
        /\ (resp.status = 307 /\ resp.location = resp.req.redirect_uri) => Trusted(resp.req)
        /\ ~Trusted(resp.req) => resp.status \in 400..499

(***************************************************************************)
(* api/oauth.py: POST /oauth/token, with the code exchange of the OAuth    *)
(* service                                                                 *)
(***************************************************************************)
\* settings: lifetime of an access token and of a refresh token, in minutes
AccessLifetime == 60
RefreshLifetime == 43200

\* the readings of the database clock the model explores: a code issued at 0 is
\* valid at CodeLifetime and expired one minute later
CodeReadings == {0, CodeLifetime, CodeLifetime + 1}

code_rows(code) == {r \in oauth_codes : r.code = code}

\* PKCE validation of the code exchange (RFC 7636, section 4.6)
pkce_ok(method, code_challenge, code_verifier) ==
    IF method = "S256" THEN S256(code_verifier) = code_challenge
    ELSE code_verifier = code_challenge

\* a variant of the checks that does not compare redirect_uri
refusal_any_redirect(rows, req, apps, t) ==
    IF rows = {} THEN "missing"
    ELSE LET row == CHOOSE r \in rows : TRUE IN
         IF row.consumed_at # NULL THEN "consumed"
         ELSE IF t > row.expires_at THEN "expired"
         ELSE IF row.app \notin DOMAIN apps \/ apps[row.app].client_id # req.client_id
         THEN "client_id"
         ELSE IF truthy(row.code_challenge)
         THEN IF ~truthy(req.code_verifier) THEN "no_verifier"
              ELSE IF ~pkce_ok(row.code_challenge_method, row.code_challenge,
                               req.code_verifier)
              THEN "verifier" ELSE None
         ELSE IF ~verify_secret(req.client_secret, apps[row.app].client_secret_hash)
         THEN "client_secret" ELSE None

\* oauth_service.exchange_code_for_tokens: the check that refuses the redemption of
\* the code row it has read (rows: that row, or nothing), None when it is granted
refusal(rows, req, apps, t) ==
    IF rows = {} THEN "missing"
    ELSE LET row == CHOOSE r \in rows : TRUE IN
         IF row.consumed_at # NULL THEN "consumed"
         ELSE IF t > row.expires_at THEN "expired"
         ELSE IF row.app \notin DOMAIN apps \/ apps[row.app].client_id # req.client_id
         THEN "client_id"
         ELSE IF row.redirect_uri # req.redirect_uri THEN "redirect_uri"
         ELSE IF truthy(row.code_challenge)
         THEN IF ~truthy(req.code_verifier) THEN "no_verifier"
              ELSE IF ~pkce_ok(row.code_challenge_method, row.code_challenge,
                               req.code_verifier)
              THEN "verifier" ELSE None
         ELSE IF ~verify_secret(req.client_secret, apps[row.app].client_secret_hash)
         THEN "client_secret" ELSE None

\* the OAuth error the exchange returns: a wrong secret is invalid_client, every
\* other refusal invalid_grant
exchange_error(why) ==
    IF why = None THEN None
    ELSE IF why = "client_secret" THEN "invalid_client" ELSE "invalid_grant"

\* a variant that consumes the code on every attempt
marks_consumed_always(error) == TRUE

\* the exchange sets consumed_at only when it grants the redemption
marks_consumed(error) == error = None

\* the access and the refresh token minted for a redeemed code
minted(row, n, t) ==
    { [token |-> token_value(n + 1), kind |-> "access", user |-> row.user, app |-> row.app,
       scopes |-> row.scopes, public |-> truthy(row.code_challenge),
       expires_at |-> t + AccessLifetime, revoked_at |-> NULL],
      [token |-> token_value(n + 2), kind |-> "refresh", user |-> row.user, app |-> row.app,
       scopes |-> row.scopes, public |-> truthy(row.code_challenge),
       expires_at |-> t + RefreshLifetime, revoked_at |-> NULL] }

\* the exchange in oauth_service.exchange_code_for_tokens, on the code row the
\* transaction has read, and the response of the handler (lines 144-159); live and
\* waited are not part of the answer: whether the row read was neither consumed nor
\* expired, and whether the transaction had to wait for the row
Exchange(req, rows, waited) ==
    LET why == refusal(rows, req, applications, clock)
        error == exchange_error(why)
        row == CHOOSE r \in rows : TRUE
        live == \E r \in rows : r.consumed_at = NULL /\ ~(clock > r.expires_at)
    IN  /\ oauth_codes' = IF rows # {} /\ marks_consumed(error)
                          THEN {IF r.code = row.code
                                THEN [r EXCEPT !.consumed_at = clock] ELSE r :
                                    r \in oauth_codes}
                          ELSE oauth_codes
        /\ IF error = None
           THEN /\ oauth_tokens' = oauth_tokens \cup minted(row, issued.tokens, clock)
                /\ issued' = [issued EXCEPT !.tokens = @ + 2]
                /\ resp' = [endpoint |-> "token", req |-> req, live |-> live, waited |-> waited,
                            status |-> 200,
                            detail |-> None,
                            access_token |-> token_value(issued.tokens + 1),
                            refresh_token |-> token_value(issued.tokens + 2)]
                /\ codelog' = [codelog EXCEPT ![row.code].redemptions = Append(@, req)]
           ELSE /\ resp' = [endpoint |-> "token", req |-> req, live |-> live, waited |-> waited,
                            status |-> 400,
                            detail |-> error, access_token |-> None,
                            refresh_token |-> None]
                /\ codelog' = IF live
                              THEN [codelog EXCEPT ![row.code].refused = TRUE]
                              ELSE codelog
                /\ UNCHANGED <<oauth_tokens, issued>>

TokenRequest(grant_type, code, redirect_uri, client_id, secret, refresh_token, verifier) ==
    [grant_type |-> grant_type, code |-> code, redirect_uri |-> redirect_uri,
     client_id |-> client_id, client_secret |-> secret,
     refresh_token |-> refresh_token, code_verifier |-> verifier]

\* token(): the request reaches the code exchange (lines 137-143)
reaches_exchange(req) ==
    req.grant_type = "authorization_code" /\ truthy(req.code) /\ truthy(req.redirect_uri)

\* the code row another transaction holds locked
locked(code) ==
    \E t \in DOMAIN tasks :
        \/ tasks[t].pc = "locked" /\ \E r \in tasks[t].rows : r.code = code
        \/ /\ tasks[t].pc = "delete"
           /\ \E i \in {j \in DOMAIN tasks[t].writes : tasks[t].writes[j].kind = "code.delete"} :
                  \E r \in tasks[t].writes[i].rows : r.code = code

\* a variant that reads the row without waiting for the lock
no_lock(code) == TRUE

\* SELECT ... FOR UPDATE of the code row: the transaction waits while another one
\* holds the row
can_lock(code) == ~locked(code)

\* POST /oauth/token with grant_type=authorization_code, in one transaction
TokenExchange(req) ==
    /\ reaches_exchange(req)
    /\ can_lock(req.code)
    /\ Exchange(req, code_rows(req.code), FALSE)
    /\ UNCHANGED <<limVars, login_history, adminVars, clock, tasks, revoked>>

\* POST /oauth/token refused before any service call: a code grant without code or
\* redirect_uri (lines 138-142), a refresh grant without refresh_token (161-165),
\* any other grant_type (183-187)
token_refused(req) ==
    /\ ~reaches_exchange(req)
    /\ ~(req.grant_type = "refresh_token" /\ truthy(req.refresh_token))
    /\ resp' = [endpoint |-> "token", req |-> req, live |-> FALSE, waited |-> FALSE,
                status |-> 400,
                detail |-> IF req.grant_type = "authorization_code"
                           THEN "Missing code or redirect_uri"
                           ELSE IF req.grant_type = "refresh_token"
                           THEN "Missing refresh_token"
                           ELSE "Unsupported grant_type",
                access_token |-> None, refresh_token |-> None]
    /\ UNCHANGED <<limVars, login_history, adminVars, oauth_codes, oauth_tokens, issued, clock, tasks,
                   codelog, revoked>>

\* the same request as a task among concurrent ones (t is the first free task
\* name): the request arrives ...
TokenArrive(t, req) ==
    /\ t \notin DOMAIN tasks
    /\ \A u \in 1..(t - 1) : u \in DOMAIN tasks
    /\ reaches_exchange(req)
    /\ tasks' = [u \in DOMAIN tasks \cup {t} |->
                    IF u = t
                    THEN [req |-> req, pc |-> "waiting", rows |-> {},
                          waited |-> locked(req.code)]
                    ELSE tasks[u]]
    /\ UNCHANGED <<limVars, login_history, adminVars, oauth_codes, oauth_tokens, issued, clock, resp,
                   codelog, revoked>>

\* ... its transaction reads the code row and holds it locked ...
TokenLock(t) ==
    /\ t \in DOMAIN tasks
    /\ tasks[t].pc = "waiting"
    /\ can_lock(tasks[t].req.code)
    /\ tasks' = [tasks EXCEPT ![t].pc = "locked",
                              ![t].rows = code_rows(tasks[t].req.code)]
    /\ UNCHANGED <<limVars, login_history, adminVars, oauth_codes, oauth_tokens, issued, clock, resp,
                   codelog, revoked>>

\* ... decides on the row it has read, writes, and commits
TokenFinish(t) ==
    /\ t \in DOMAIN tasks
    /\ tasks[t].pc = "locked"
    /\ Exchange(tasks[t].req, tasks[t].rows, tasks[t].waited)
    /\ tasks' = [u \in DOMAIN tasks \ {t} |-> tasks[u]]
    /\ UNCHANGED <<limVars, login_history, adminVars, clock, revoked>>

\* the database clock advances to a later one of the readings
Advance(readings) ==
    /\ \E t \in readings : t > clock /\ clock' = t
    /\ UNCHANGED <<limVars, login_history, adminVars, oauth_codes, oauth_tokens, issued, tasks, resp,
                   codelog, revoked>>

(***************************************************************************)
(* api/admin.py: POST /api/admin/cleanup-tokens                            *)
(***************************************************************************)
\* a variant that also deletes the tokens that are revoked
cleanup_tokens_and_revoked ==
    /\ oauth_codes' = {r \in oauth_codes : ~(r.expires_at < clock)}
    /\ oauth_tokens' = {r \in oauth_tokens :
                            ~(r.expires_at < clock) /\ r.revoked_at = NULL}
    /\ resp' = [endpoint |-> "cleanup-tokens",
                deleted_codes |-> Cardinality(oauth_codes) - Cardinality(oauth_codes'),
                deleted_tokens |-> Cardinality(oauth_tokens) - Cardinality(oauth_tokens')]
    /\ UNCHANGED <<limVars, login_history, adminVars, issued, clock, tasks, codelog, revoked>>

cleanup_tokens ==
    /\ \A r \in oauth_codes : r.expires_at < clock => ~locked(r.code)
    /\ oauth_codes' = {r \in oauth_codes : ~(r.expires_at < clock)}
    /\ oauth_tokens' = {r \in oauth_tokens : ~(r.expires_at < clock)}
    /\ resp' = [endpoint |-> "cleanup-tokens",
                deleted_codes |-> Cardinality({r \in oauth_codes : r.expires_at < clock}),
                deleted_tokens |-> Cardinality({r \in oauth_tokens : r.expires_at < clock})]
    /\ UNCHANGED <<limVars, login_history, adminVars, issued, clock, tasks, codelog, revoked>>

(***************************************************************************)
(* Code redemption: one client redeems the codes it was issued.            *)
(***************************************************************************)
\* authorize requests of client cA that yield a code, with and without PKCE
IssuingRequests ==
    { AuthorizeRequest("code", "cA", "https://a/cb", None, p[1], p[2], "u1") :
        p \in { <<None, None>>, <<"h1", "S256">>, <<"h1", None>> } }

\* (redirect_uri, client_id, client_secret, code_verifier) of the redemption
\* attempts: the right ones for a code with and without PKCE, and the ones with a
\* trailing slash, another client, a wrong or no secret, a wrong or no verifier
RedeemParams ==
    { <<"https://a/cb", "cA", "sA", None>>, <<"https://a/cb/", "cA", "sA", None>>,
      <<"https://a/cb", "cB", "sB", None>>, <<"https://a/cb", "cA", "sB", None>>,
      <<"https://a/cb", "cA", None, None>>, <<"https://a/cb", "cA", None, "v1">>,
      <<"https://a/cb", "cA", None, "h1">>, <<"https://a/cb", "cA", "sA", "v1">>,
      <<"https://a/cb/", "cA", None, "v1">> }

RedeemRequests ==
    { TokenRequest("authorization_code", code_value(n), p[1], p[2], p[3], None, p[4]) :
        n \in 1..MaxCodes, p \in RedeemParams }

InitExchange == InitAuthorize

NextExchange ==
    \/ \E req \in IssuingRequests : Authorize(req)
    \/ \E req \in RedeemRequests : TokenExchange(req)
    \/ Advance(CodeReadings)
    \/ cleanup_tokens

SpecExchange == InitExchange /\ [][NextExchange]_vars

\* the code has a row that is neither consumed nor expired
Live(c) == \E r \in code_rows(c) : r.consumed_at = NULL /\ ~(clock > r.expires_at)

\* the request presents the client_id and the redirect_uri the code was issued to
SameBinding(c, req) ==
    /\ req.client_id = codelog[c].issued_to.client_id
    /\ req.redirect_uri = codelog[c].issued_to.redirect_uri

\* the method recorded for a code issued with a challenge: the requested one, plain
\* when authorize received none
RecordedMethod(c) ==
    IF truthy(codelog[c].issued_to.code_challenge_method)
    THEN codelog[c].issued_to.code_challenge_method ELSE "plain"

\* the request carries a verifier that matches the challenge the code was issued with
VerifierMatches(c, req) ==
    /\ truthy(req.code_verifier)
    /\ IF RecordedMethod(c) = "S256"
       THEN S256(req.code_verifier) = codelog[c].issued_to.code_challenge
       ELSE req.code_verifier = codelog[c].issued_to.code_challenge

\* the request presents the secret of the client it names
SecretValid(req) ==
    \E a \in DOMAIN applications :
        /\ applications[a].client_id = req.client_id
        /\ verify_secret(req.client_secret, applications[a].client_secret_hash)

\* the last answer is that of the token endpoint to a request for an issued code
TokenAnswered == resp.endpoint = "token" /\ resp.req.code \in DOMAIN codelog

\* the last answer is the refusal invalid_grant
InvalidGrant == resp.status = 400 /\ resp.detail = "invalid_grant"

\* a step that answers a token request with an error
ErrorAnswerStep == resp'.endpoint = "token" /\ resp'.status = 400 /\ clock' = clock

BoundRedemptions ==
    \A c \in DOMAIN codelog : \A i \in 1..Len(codelog[c].redemptions) :
        SameBinding(c, codelog[c].redemptions[i])

UnboundRefused ==
    (TokenAnswered /\ ~SameBinding(resp.req.code, resp.req)) => InvalidGrant

NoMintOnError == ErrorAnswerStep => oauth_tokens' = oauth_tokens

\* C8: every redemption that succeeded presented the client_id and the redirect_uri
\* the code was issued to, byte for byte; a redemption that differs in either is
\* answered invalid_grant, and an error answer mints no token.
C8_RedemptionBound == [](BoundRedemptions /\ UnboundRefused) /\ [][NoMintOnError]_vars

\* the redemption of a live code by its own client was refused for a trailing slash
\* on redirect_uri
C8_Witness ==
    /\ TokenAnswered /\ resp.live /\ InvalidGrant
    /\ resp.req.client_id = codelog[resp.req.code].issued_to.client_id
    /\ resp.req.redirect_uri = "https://a/cb/"
    /\ codelog[resp.req.code].issued_to.redirect_uri = "https://a/cb"

PkceRedemptions ==
    \A c \in DOMAIN codelog :
        truthy(codelog[c].issued_to.code_challenge) =>
            \A i \in 1..Len(codelog[c].redemptions) :
                VerifierMatches(c, codelog[c].redemptions[i])

PkceRefused ==
    (/\ TokenAnswered
     /\ truthy(codelog[resp.req.code].issued_to.code_challenge)
     /\ ~VerifierMatches(resp.req.code, resp.req)) => InvalidGrant

\* C9: a code issued with a code_challenge is redeemed only by a request whose
\* code_verifier matches it under the recorded method (S256, or plain, which is also
\* the method recorded when authorize received no method); a missing or wrong
\* verifier is answered invalid_grant, whatever client_secret comes with it.
C9_PkceSound == PkceRedemptions /\ PkceRefused

\* a code issued with a challenge and no method was redeemed by the verifier equal to
\* the challenge, after a redemption of it had been refused
C9_Witness ==
    \E c \in DOMAIN codelog :
        /\ codelog[c].issued_to.code_challenge = "h1"
        /\ ~truthy(codelog[c].issued_to.code_challenge_method)
        /\ codelog[c].refused
        /\ Len(codelog[c].redemptions) = 1
        /\ codelog[c].redemptions[1].code_verifier = "h1"

\* the request is the redemption the code was issued for
Correct(c, req) ==
    /\ SameBinding(c, req)
    /\ IF truthy(codelog[c].issued_to.code_challenge)
       THEN VerifierMatches(c, req) ELSE SecretValid(req)

FailurePreserves ==
    ErrorAnswerStep => (oauth_codes' = oauth_codes /\ oauth_tokens' = oauth_tokens)

CorrectSucceeds ==
    (TokenAnswered /\ resp.live /\ Correct(resp.req.code, resp.req)) => resp.status = 200

\* C10: a refused redemption changes neither the code row (consumed_at stays null)
\* nor the tokens, and the correct redemption of a code that is neither consumed nor
\* expired succeeds, whatever was refused before.
C10_FailurePreservesCode == []CorrectSucceeds /\ [][FailurePreserves]_vars

\* a code was redeemed after a redemption of it had been refused
C10_Witness ==
    /\ TokenAnswered /\ resp.status = 200
    /\ codelog[resp.req.code].refused
    /\ Len(codelog[resp.req.code].redemptions) = 1

(***************************************************************************)
(* Concurrent redemptions of one code.                                     *)
(***************************************************************************)
\* the redemption a code without PKCE was issued for
RaceRequests ==
    { TokenRequest("authorization_code", code_value(n), "https://a/cb", "cA", "sA",
                   None, None) : n \in 1..MaxCodes }

InitRace == InitAuthorize

NextRace ==
    \/ \E req \in IssuingRequests : ~truthy(req.code_challenge) /\ Authorize(req)
    \/ \E t \in 1..MaxTasks, req \in RaceRequests : TokenArrive(t, req)
    \/ \E t \in 1..MaxTasks : TokenLock(t)
    \/ \E t \in 1..MaxTasks : TokenFinish(t)
    \/ Advance(CodeReadings)
    \/ cleanup_tokens

SpecRace == InitRace /\ [][NextRace]_vars

\* no code was redeemed twice, and no more than one pair of tokens per code was minted
SingleUse ==
    /\ \A c \in DOMAIN codelog : Len(codelog[c].redemptions) <= 1
    /\ issued.tokens <= 2 * issued.codes

\* a step that answers a redemption of a code that was redeemed before
SecondAnswerStep ==
    /\ resp'.endpoint = "token" /\ resp' # resp
    /\ resp'.req.code \in DOMAIN codelog
    /\ Len(codelog[resp'.req.code].redemptions) >= 1

LoserRefused ==
    SecondAnswerStep => (resp'.status = 400 /\ resp'.detail = "invalid_grant")

\* C1: over every interleaving of concurrent and repeated redemptions and sweeps, at
\* most one request obtains tokens for a code, and a redemption answered after the
\* code was redeemed is refused with invalid_grant.
C1_SingleUse == []SingleUse /\ [][LoserRefused]_vars

\* of two racing redemptions with the right parameters, the one that waited for the
\* row was refused with invalid_grant after the other had obtained the tokens
C1_Witness ==
    /\ TokenAnswered /\ resp.waited /\ InvalidGrant
    /\ Correct(resp.req.code, resp.req)
    /\ Len(codelog[resp.req.code].redemptions) = 1

(***************************************************************************)
(* api/oauth.py: the refresh_token grant, GET /oauth/userinfo and          *)
(* POST /oauth/revoke, with the token operations of the OAuth service      *)
(***************************************************************************)
token_rows(token, kind) == {r \in oauth_tokens : r.token = token /\ r.kind = kind}

\* a variant that ignores revoked_at
token_usable_if_unexpired(row, t) == ~(t > row.expires_at)

\* a token is accepted while it is neither revoked nor expired
token_usable(row, t) == row.revoked_at = NULL /\ ~(t > row.expires_at)

\* oauth_service.refresh_tokens: the error it returns, None when it mints
refresh_error(req, apps, t) ==
    LET rows == token_rows(req.refresh_token, "refresh") IN
    IF rows = {} THEN "invalid_grant"
    ELSE LET row == CHOOSE r \in rows : TRUE IN
         IF ~token_usable(row, t) THEN "invalid_grant"
         ELSE IF row.app \notin DOMAIN apps \/ apps[row.app].client_id # req.client_id
         THEN "invalid_client"
         ELSE IF ~row.public
                 /\ ~verify_secret(req.client_secret, apps[row.app].client_secret_hash)
         THEN "invalid_client" ELSE None

\* POST /oauth/token with grant_type=refresh_token (lines 160-180): a new access
\* token for the grant of the refresh token, which is kept
TokenRefresh(req) ==
    LET error == refresh_error(req, applications, clock)
        row == CHOOSE r \in token_rows(req.refresh_token, "refresh") : TRUE
    IN  /\ req.grant_type = "refresh_token"
        /\ truthy(req.refresh_token)
        /\ IF error = None
           THEN /\ issued.tokens < MaxTokens
                /\ oauth_tokens' = oauth_tokens \cup
                       {[row EXCEPT !.token = token_value(issued.tokens + 1),
                                    !.kind = "access",
                                    !.expires_at = clock + AccessLifetime]}
                /\ issued' = [issued EXCEPT !.tokens = @ + 1]
                /\ resp' = [endpoint |-> "token", req |-> req, live |-> FALSE,
                            waited |-> FALSE, status |-> 200, detail |-> None,
                            access_token |-> token_value(issued.tokens + 1),
                            refresh_token |-> req.refresh_token]
           ELSE /\ resp' = [endpoint |-> "token", req |-> req, live |-> FALSE,
                            waited |-> FALSE, status |-> 400, detail |-> error,
                            access_token |-> None, refresh_token |-> None]
                /\ UNCHANGED <<oauth_tokens, issued>>
        /\ UNCHANGED <<limVars, login_history, adminVars, oauth_codes, clock, tasks, codelog, revoked>>

\* oauth_service.get_user_by_access_token: the user of a usable access token
get_user_by_access_token(token, t) ==
    LET rows == {r \in token_rows(token, "access") : token_usable(r, t)}
    IN  IF rows = {} THEN None ELSE (CHOOSE r \in rows : TRUE).user

\* an Authorization header: its first seven characters and the rest
Header(prefix, rest) == [prefix |-> prefix, rest |-> rest]

\* GET /oauth/userinfo (lines 190-218); a request without the header does not reach
\* the handler (the parameter is required)
userinfo(authorization) ==
    /\ resp' =
         IF authorization = Header(None, None)
         THEN [endpoint |-> "userinfo", token |-> None, status |-> 422, user |-> None]
         ELSE IF authorization.prefix # "Bearer "
         THEN [endpoint |-> "userinfo", token |-> None, status |-> 401, user |-> None]
         ELSE LET user == get_user_by_access_token(authorization.rest, clock) IN
              IF ~truthy(user)
              THEN [endpoint |-> "userinfo", token |-> authorization.rest,
                    status |-> 401, user |-> None]
              ELSE [endpoint |-> "userinfo", token |-> authorization.rest,
                    status |-> 200, user |-> user]
    /\ UNCHANGED <<limVars, login_history, adminVars, oauth_codes, oauth_tokens, issued, clock, tasks,
                   codelog, revoked>>

\* a variant that marks the token whichever application it was issued to
revoke_rows_of_any_client(token, application) ==
    {r \in oauth_tokens : r.token = token /\ r.revoked_at = NULL}

\* oauth_service.revoke_token: the rows it marks, those of this token that belong to
\* the application and are not revoked yet
revoke_rows(token, application) ==
    {r \in oauth_tokens : r.token = token /\ r.app = application /\ r.revoked_at = NULL}

\* the request of POST /oauth/revoke
RevokeRequest(token, client_id, client_secret) ==
    [token |-> token, client_id |-> client_id, client_secret |-> client_secret]

\* a variant that tells whether a token was revoked
revoke_answer_not_found(marked) ==
    IF marked = {} THEN [status |-> 404, body |-> <<"detail">>]
    ELSE [status |-> 200, body |-> <<>>]

\* the answer to an authenticated client (lines 248-258): the outcome of
\* oauth_service.revoke_token is not looked at, the body is the empty object
revoke_answer(marked) == [status |-> 200, body |-> <<>>]

\* POST /oauth/revoke (lines 221-258)
revoke_token(token, client_id, client_secret) ==
    LET application == get_application_by_client_id(applications, client_id)
        authenticated ==
            /\ application # None
            /\ verify_secret(client_secret, applications[application].client_secret_hash)
        marked == revoke_rows(token, application)
        owned == {r \in oauth_tokens : r.token = token /\ r.app = application}
    IN  /\ IF ~authenticated
           THEN /\ resp' = [endpoint |-> "revoke",
                            req |-> RevokeRequest(token, client_id, client_secret),
                            status |-> 401, body |-> <<"detail", "invalid_client">>]
                /\ UNCHANGED <<oauth_tokens, revoked>>
           ELSE /\ resp' = [endpoint |-> "revoke",
                            req |-> RevokeRequest(token, client_id, client_secret),
                            status |-> revoke_answer(marked).status,
                            body |-> revoke_answer(marked).body]
                /\ oauth_tokens' = (oauth_tokens \ marked) \cup
                                       {[r EXCEPT !.revoked_at = clock] : r \in marked}
                /\ revoked' = IF owned # {} THEN revoked \cup {token} ELSE revoked
        /\ UNCHANGED <<limVars, login_history, adminVars, oauth_codes, issued, clock, tasks, codelog>>

(***************************************************************************)
(* The life of the tokens of one grant.                                    *)
(***************************************************************************)
\* the readings of the clock: an access token minted at 0 is valid at AccessLifetime
\* and expired one minute later
TokenReadings == {0, AccessLifetime, AccessLifetime + 1}

\* the tokens a request can present: the ones the service mints, and one it never did
TokenValues == {token_value(n) : n \in 1..MaxTokens} \cup {"tokX"}

\* the clients that call, with the secret they present
Callers == { <<"cA", "sA">>, <<"cB", "sB">>, <<"cA", "sB">> }

\* the clients that ask for a revocation: the callers, and one that is not registered
Revokers == Callers \cup { <<"cX", "sA">> }

InitTokens == InitAuthorize

NextTokens ==
    \/ \E req \in IssuingRequests :
           issued.codes = 0 /\ ~truthy(req.code_challenge) /\ Authorize(req)
    \/ TokenExchange(TokenRequest("authorization_code", code_value(1),
                                  "https://a/cb", "cA", "sA", None, None))
    \/ \E tok \in TokenValues, c \in Callers :
           TokenRefresh(TokenRequest("refresh_token", None, None, c[1], c[2], tok, None))
    \/ \E tok \in TokenValues : userinfo(Header("Bearer ", tok))
    \/ userinfo(Header("Basic x", "tok1"))
    \/ userinfo(Header(None, None))
    \/ \E tok \in TokenValues, c \in Revokers : revoke_token(tok, c[1], c[2])
    \/ Advance(TokenReadings)
    \/ cleanup_tokens

SpecTokens == InitTokens /\ [][NextTokens]_vars

(***************************************************************************)
(* The sweeper among codes and tokens that are issued, redeemed, revoked   *)
(* and expire.                                                             *)
(***************************************************************************)
InitCleanup == InitAuthorize

NextCleanup ==
    \/ Authorize(AuthorizeRequest("code", "cA", "https://a/cb", None, None, None, "u1"))
    \/ \E n \in 1..MaxCodes :
           TokenExchange(TokenRequest("authorization_code", code_value(n),
                                      "https://a/cb", "cA", "sA", None, None))
    \/ \E tok \in TokenValues : revoke_token(tok, "cA", "sA")
    \/ Advance(TokenReadings)
    \/ cleanup_tokens

SpecCleanup == InitCleanup /\ [][NextCleanup]_vars

(***************************************************************************)
(* The token endpoint with the requests it refuses by itself.              *)
(***************************************************************************)
\* requests the token endpoint refuses by itself: an unknown grant, a code grant
\* without its code or without its redirect_uri, a refresh grant without its token
RefusedRequests ==
    { TokenRequest("password", code_value(1), "https://a/cb", "cA", "sA",
                   token_value(2), None),
      TokenRequest("authorization_code", None, "https://a/cb", "cA", "sA", None, None),
      TokenRequest("authorization_code", code_value(1), "", "cA", "sA", None, None),
      TokenRequest("refresh_token", code_value(1), "https://a/cb", "cA", "sA",
                   None, None) }

InitRefuse == InitAuthorize

NextRefuse ==
    \/ \E req \in IssuingRequests :
           issued.codes = 0 /\ ~truthy(req.code_challenge) /\ Authorize(req)
    \/ TokenExchange(TokenRequest("authorization_code", code_value(1),
                                  "https://a/cb", "cA", "sA", None, None))
    \/ \E tok \in TokenValues :
           TokenRefresh(TokenRequest("refresh_token", None, None, "cA", "sA", tok, None))
    \/ \E req \in RefusedRequests : token_refused(req)
    \/ Advance(TokenReadings)

SpecRefuse == InitRefuse /\ [][NextRefuse]_vars

\* every token whose revocation by its client was answered has revoked_at set, as
\* long as its row exists
RevokedMarked ==
    \A r \in oauth_tokens : r.token \in revoked => r.revoked_at # NULL

\* revoked_at, once set, is not cleared
RevokedStays ==
    \A r \in oauth_tokens : r.revoked_at # NULL =>
        \A q \in oauth_tokens' : q.token = r.token => q.revoked_at # NULL

\* a userinfo request that presents a revoked token is answered 401, without a user
RevokedRejected ==
    (resp'.endpoint = "userinfo" /\ resp' # resp /\ resp'.token \in revoked) =>
        (resp'.status = 401 /\ resp'.user = None)

\* C5: once the revocation of a token by its client has returned, the token's
\* revoked_at stays set in every later state and every later userinfo request that
\* presents it is answered 401 without a user, through exchanges, refreshes,
\* revocations and sweeps.
C5_RevocationMonotonic == []RevokedMarked /\ [][RevokedStays /\ RevokedRejected]_vars

\* userinfo has refused, with 401, a revoked access token that is not expired
C5_Witness ==
    /\ resp.endpoint = "userinfo" /\ resp.status = 401
    /\ resp.token \in revoked
    /\ \E r \in token_rows(resp.token, "access") : ~(clock > r.expires_at)

(***************************************************************************)
(* api/applications.py and api/admin.py: the application listing and the   *)
(* administration of users, groups and access                              *)
(***************************************************************************)
\* GET /api/applications: the active applications whose allowed_departments is
\* empty or holds the user's department
\* a variant that lists every active application
list_active_applications(current_user) ==
    /\ current_user \in DOMAIN users
    /\ resp' = [endpoint |-> "list_applications", user |-> current_user,
                status |-> 200,
                apps |-> {a \in DOMAIN applications : applications[a].is_active}]
    /\ UNCHANGED <<limVars, login_history, adminVars, oauth_codes, oauth_tokens, issued, clock, tasks,
                   codelog, revoked>>

list_applications(current_user) ==
    /\ current_user \in DOMAIN users
    /\ LET user_department == users[current_user].department
           filtered == {a \in DOMAIN applications :
                           /\ applications[a].is_active
                           /\ \/ applications[a].allowed_departments = {}
                              \/ user_department \in applications[a].allowed_departments}
       IN  resp' = [endpoint |-> "list_applications", user |-> current_user,
                    status |-> 200, apps |-> filtered]
    /\ UNCHANGED <<limVars, login_history, adminVars, oauth_codes, oauth_tokens, issued, clock, tasks,
                   codelog, revoked>>

\* AuditService.log_action: the row it adds (of its columns, those that say who did
\* what to which entity)
log_action(logs, user_id, action, entity_type, entity_id) ==
    Append(logs, [user_id |-> user_id, action |-> action,
                  entity_type |-> entity_type, entity_id |-> entity_id])

\* AuditService.log_login: the row it adds (of its columns, those that say who
\* tried to sign in, how, and with what outcome)
log_login(history, user_id, login_type, success, failure_reason) ==
    Append(history, [user_id |-> user_id, login_type |-> login_type,
                     success |-> success, failure_reason |-> failure_reason])

\* the answer of an admin endpoint about an entity
AdminResp(endpoint, status, entity_type, entity_id) ==
    [endpoint |-> endpoint, status |-> status, entity_type |-> entity_type,
     entity_id |-> entity_id]

\* Depends(get_current_admin): the caller is an active administrator
get_current_admin(admin) ==
    admin \in DOMAIN users /\ users[admin].is_admin /\ users[admin].is_active

\* an optional boolean of a request body: <<>> when absent, <<b>> otherwise
Given(x) == x # <<>>

\* PATCH /api/admin/users/{user_id}
update_user(admin, user_id, is_active, is_admin) ==
    /\ get_current_admin(admin)
    /\ IF user_id \notin DOMAIN users
       THEN /\ resp' = AdminResp("update_user", 404, "user", user_id)
            /\ UNCHANGED <<users, audit_logs>>
       ELSE IF user_id = admin /\ is_admin = <<FALSE>>
       THEN /\ resp' = AdminResp("update_user", 400, "user", user_id)
            /\ UNCHANGED <<users, audit_logs>>
       ELSE LET user == users[user_id]
                active_changes == Given(is_active) /\ user.is_active # is_active[1]
                admin_changes == Given(is_admin) /\ user.is_admin # is_admin[1]
            IN  /\ users' = [users EXCEPT
                       ![user_id].is_active = IF active_changes THEN is_active[1] ELSE @,
                       ![user_id].is_admin = IF admin_changes THEN is_admin[1] ELSE @]
                /\ IF active_changes \/ admin_changes
                   THEN /\ Len(audit_logs) < MaxAudit
                        /\ audit_logs' = log_action(audit_logs, admin, "user.update",
                                                    "user", user_id)
                   ELSE UNCHANGED audit_logs
                /\ resp' = AdminResp("update_user", 200, "user", user_id)
    /\ UNCHANGED <<limVars, login_history, applications, groups, access, oauth_codes, oauth_tokens,
                   issued, clock, tasks, codelog, revoked>>

group_value(n) == "g" \o ToString(n)

\* POST /api/admin/groups
create_group(admin, name, member_ids) ==
    /\ get_current_admin(admin)
    /\ IF \E g \in DOMAIN groups : groups[g].name = name
       THEN /\ resp' = AdminResp("create_group", 400, "group", None)
            /\ UNCHANGED <<groups, audit_logs, issued>>
       ELSE LET id == group_value(issued.groups + 1) IN
            /\ issued.groups < MaxGroups
            /\ Len(audit_logs) < MaxAudit
            /\ issued' = [issued EXCEPT !.groups = @ + 1]
            /\ groups' = [g \in DOMAIN groups \cup {id} |->
                            IF g = id
                            THEN [name |-> name,
                                  members |-> member_ids \cap DOMAIN users]
                            ELSE groups[g]]
            /\ audit_logs' = log_action(audit_logs, admin, "group.create", "group", id)
            /\ resp' = AdminResp("create_group", 201, "group", id)
    /\ UNCHANGED <<limVars, login_history, applications, users, access, oauth_codes, oauth_tokens,
                   clock, tasks, codelog, revoked>>

\* PATCH /api/admin/groups/{group_id}: no audit row is written
update_group(admin, group_id, name) ==
    /\ get_current_admin(admin)
    /\ IF group_id \notin DOMAIN groups
       THEN /\ resp' = AdminResp("update_group", 404, "group", group_id)
            /\ UNCHANGED groups
       ELSE IF name # None /\ \E g \in DOMAIN groups \ {group_id} : groups[g].name = name
       THEN /\ resp' = AdminResp("update_group", 400, "group", group_id)
            /\ UNCHANGED groups
       ELSE /\ groups' = [groups EXCEPT ![group_id].name = IF name # None THEN name ELSE @]
            /\ resp' = AdminResp("update_group", 200, "group", group_id)
    /\ UNCHANGED <<limVars, login_history, applications, users, access, audit_logs, oauth_codes,
                   oauth_tokens, issued, clock, tasks, codelog, revoked>>

\* DELETE /api/admin/groups/{group_id}; the group's membership and access rows go
\* with it
delete_group(admin, group_id) ==
    /\ get_current_admin(admin)
    /\ IF group_id \notin DOMAIN groups
       THEN /\ resp' = AdminResp("delete_group", 404, "group", group_id)
            /\ UNCHANGED <<groups, access, audit_logs>>
       ELSE /\ Len(audit_logs) < MaxAudit
            /\ audit_logs' = log_action(audit_logs, admin, "group.delete", "group",
                                        group_id)
            /\ groups' = [g \in DOMAIN groups \ {group_id} |-> groups[g]]
            /\ access' = {r \in access : r.group # group_id}
            /\ resp' = AdminResp("delete_group", 204, "group", group_id)
    /\ UNCHANGED <<limVars, login_history, applications, users, oauth_codes, oauth_tokens, issued,
                   clock, tasks, codelog, revoked>>

\* POST /api/admin/groups/{group_id}/members: no audit row is written
add_group_members(admin, group_id, action, user_ids) ==
    /\ get_current_admin(admin)
    /\ IF group_id \notin DOMAIN groups
       THEN /\ resp' = AdminResp("add_group_members", 404, "group", group_id)
            /\ UNCHANGED groups
       ELSE /\ groups' = [groups EXCEPT ![group_id].members =
                            IF action = "add" THEN @ \cup (user_ids \cap DOMAIN users)
                            ELSE IF action = "remove" THEN @ \ user_ids
                            ELSE @]
            /\ resp' = AdminResp("add_group_members", 200, "group", group_id)
    /\ UNCHANGED <<limVars, login_history, applications, users, access, audit_logs, oauth_codes,
                   oauth_tokens, issued, clock, tasks, codelog, revoked>>

\* the application_access rows of a grant to users and to groups
access_rows(application_id, user_ids, group_ids) ==
    {[user |-> u, group |-> None, app |-> application_id] : u \in user_ids}
        \cup {[user |-> None, group |-> g, app |-> application_id] : g \in group_ids}

\* POST /api/admin/access/grant
grant_access(admin, application_id, user_ids, group_ids) ==
    /\ get_current_admin(admin)
    /\ IF application_id \notin DOMAIN applications
       THEN /\ resp' = AdminResp("grant_access", 404, "application", application_id)
            /\ UNCHANGED <<access, audit_logs>>
       ELSE LET added == access_rows(application_id, user_ids, group_ids) \ access IN
            /\ access' = access \cup added
            /\ IF added # {}
               THEN /\ Len(audit_logs) < MaxAudit
                    /\ audit_logs' = log_action(audit_logs, admin, "access.grant",
                                                "application", application_id)
               ELSE UNCHANGED audit_logs
            /\ resp' = AdminResp("grant_access", 200, "application", application_id)
    /\ UNCHANGED <<limVars, login_history, applications, users, groups, oauth_codes, oauth_tokens,
                   issued, clock, tasks, codelog, revoked>>

\* POST /api/admin/access/revoke
revoke_access(admin, application_id, user_ids, group_ids) ==
    /\ get_current_admin(admin)
    /\ LET deleted == access_rows(application_id, user_ids, group_ids) \cap access IN
       /\ access' = access \ deleted
       /\ IF deleted # {}
          THEN /\ Len(audit_logs) < MaxAudit
               /\ audit_logs' = log_action(audit_logs, admin, "access.revoke",
                                           "application", application_id)
          ELSE UNCHANGED audit_logs
       /\ resp' = AdminResp("revoke_access", 200, "application", application_id)
    /\ UNCHANGED <<limVars, login_history, applications, users, groups, oauth_codes, oauth_tokens,
                   issued, clock, tasks, codelog, revoked>>

\* PATCH /api/admin/applications/{app_id}/public: no audit row is written
set_application_public(admin, app_id, is_public) ==
    /\ get_current_admin(admin)
    /\ IF app_id \notin DOMAIN applications
       THEN /\ resp' = AdminResp("set_application_public", 404, "application", app_id)
            /\ UNCHANGED applications
       ELSE /\ applications' = [applications EXCEPT ![app_id].is_public = is_public]
            /\ resp' = AdminResp("set_application_public", 200, "application", app_id)
    /\ UNCHANGED <<limVars, login_history, users, groups, access, audit_logs, oauth_codes,
                   oauth_tokens, issued, clock, tasks, codelog, revoked>>

\* PATCH /api/admin/applications/{app_id}/departments: no audit row is written
set_application_departments(admin, app_id, departments) ==
    /\ get_current_admin(admin)
    /\ IF app_id \notin DOMAIN applications
       THEN /\ resp' = AdminResp("set_application_departments", 404, "application",
                                 app_id)
            /\ UNCHANGED applications
       ELSE /\ applications' = [applications EXCEPT
                                   ![app_id].allowed_departments = departments]
            /\ resp' = AdminResp("set_application_departments", 200, "application",
                                 app_id)
    /\ UNCHANGED <<limVars, login_history, users, groups, access, audit_logs, oauth_codes,
                   oauth_tokens, issued, clock, tasks, codelog, revoked>>

(***************************************************************************)
(* Administration: administrators change users, groups, grants and         *)
(* application flags while users list the applications.                    *)
(***************************************************************************)
GroupIds == {group_value(n) : n \in 1..MaxGroups}

\* (is_active, is_admin) of the user updates the model sends
UserUpdates ==
    { << <<>>, <<TRUE>> >>, << <<>>, <<FALSE>> >>, << <<FALSE>>, <<>> >>,
      << <<TRUE>>, <<>> >> }

InitAdmin == InitAuthorize

NextAdmin ==
    \/ \E u \in DOMAIN users : list_applications(u)
    \/ \E admin \in {"adm", "u1"} :
        \/ \E user_id \in {"adm", "u1", "uX"}, p \in UserUpdates :
               update_user(admin, user_id, p[1], p[2])
        \/ \E member_ids \in {{}, {"u1"}} : create_group(admin, "staff", member_ids)
        \/ \E g \in GroupIds, name \in {None, "staff", "team"} :
               update_group(admin, g, name)
        \/ \E g \in GroupIds : delete_group(admin, g)
        \/ \E g \in GroupIds, action \in {"add", "remove"} :
               add_group_members(admin, g, action, {"u2"})
        \/ \E a \in {"A", "X"}, user_ids \in {{}, {"u2"}}, group_ids \in {{}, GroupIds} :
               grant_access(admin, a, user_ids, group_ids)
        \/ \E a \in {"A", "X"}, user_ids \in {{}, {"u2"}}, group_ids \in {{}, GroupIds} :
               revoke_access(admin, a, user_ids, group_ids)
        \/ \E a \in {"A", "X"}, is_public \in BOOLEAN :
               set_application_public(admin, a, is_public)
        \/ \E a \in {"A", "X"}, departments \in {{}, {"IT"}} :
               set_application_departments(admin, a, departments)

SpecAdmin == InitAdmin /\ [][NextAdmin]_vars

(***************************************************************************)
(* Users of two departments list the applications and sign in to them      *)
(* while an administrator changes the departments the applications allow.  *)
(***************************************************************************)
InitGate == InitAuthorize

NextGate ==
    \/ \E u \in {"u1", "u2"} : list_applications(u)
    \/ \E u \in {"u1", "u2"}, c \in { <<"cA", "https://a/cb">>, <<"cB", "https://b/cb">> } :
           Authorize(AuthorizeRequest("code", c[1], c[2], None, None, None, u))
    \/ \E a \in {"A", "B"}, departments \in {{}, {"IT"}, {"Finance"}} :
           set_application_departments("adm", a, departments)

SpecGate == InitGate /\ [][NextGate]_vars

\* section 4.6: user u may use application a
MayUse(u, a) ==
    /\ applications[a].is_active
    /\ \/ applications[a].allowed_departments = {}
       \/ users[u].department \in applications[a].allowed_departments
    /\ \/ applications[a].is_public
       \/ users[u].is_admin
       \/ \E r \in access : r.app = a /\ r.user = u
       \/ \E r \in access : r.app = a /\ r.group \in DOMAIN groups
                               /\ u \in groups[r.group].members

\* a step that answers a listing request
ListingStep == resp'.endpoint = "list_applications" /\ resp' # resp

\* C3: the listing returned to a user is exactly the set of applications that are
\* active, pass the department gate and pass the principal gate (public, or the user
\* is an administrator, or holds a direct grant or a grant through a group).
C3_ListingEqualsAccess ==
    [][ListingStep =>
           resp'.apps = {a \in DOMAIN applications : MayUse(resp'.user, a)}]_vars

AdminMutations ==
    {"update_user", "create_group", "update_group", "delete_group", "add_group_members",
     "grant_access", "revoke_access", "set_application_public",
     "set_application_departments"}

\* a step in which an admin request succeeds and changes the store
MutationStep ==
    /\ resp'.endpoint \in AdminMutations
    /\ resp'.status \in 200..299
    /\ <<applications, users, groups, access>>' # <<applications, users, groups, access>>

\* the step adds one audit row, about the entity of the request
OneAuditRow ==
    /\ Len(audit_logs') = Len(audit_logs) + 1
    /\ SubSeq(audit_logs', 1, Len(audit_logs)) = audit_logs
    /\ audit_logs'[Len(audit_logs')].entity_type = resp'.entity_type
    /\ audit_logs'[Len(audit_logs')].entity_id = resp'.entity_id

\* C4: every successful admin request that changes users, groups, memberships,
\* grants or application flags adds exactly one AuditLog row that names the entity
\* it changed.
C4_AuditCoverage == [][MutationStep => OneAuditRow]_vars

(***************************************************************************)
(* Revocation, as its callers see it.                                      *)
(***************************************************************************)
\* the request names an active client and presents that client's secret
ValidClient(req) ==
    \E a \in DOMAIN applications :
        /\ applications[a].client_id = req.client_id
        /\ applications[a].is_active
        /\ req.client_secret # None
        /\ applications[a].client_secret_hash = hash_secret(req.client_secret)

\* C11: to a client with valid credentials POST /oauth/revoke answers 200 with an
\* empty body, whatever the token is (live and its own, another client's, revoked,
\* expired or unknown): the answer is a function of the credentials alone.
C11_RevokeRevealsNothing ==
    (resp.endpoint = "revoke" /\ ValidClient(resp.req)) =>
        (resp.status = 200 /\ resp.body = <<>>)

\* a client was answered 200 for a token that exists and belongs to another client
C11_Witness ==
    /\ resp.endpoint = "revoke" /\ resp.status = 200 /\ resp.body = <<>>
    /\ resp.req.client_id = "cB"
    /\ \E r \in oauth_tokens : r.token = resp.req.token /\ r.app = "A"

(***************************************************************************)
(* What authorize issues.                                                  *)
(***************************************************************************)
\* the request is one authorize may issue a code for
Eligible(req) ==
    /\ req.response_type = "code"
    /\ ~truthy(req.code_challenge_method) \/ req.code_challenge_method \in {"S256", "plain"}
    /\ Trusted(req)
    /\ req.current_user # None

\* the code row carries the values of the request
BoundTo(r, req) ==
    /\ r.user = req.current_user
    /\ r.app \in DOMAIN applications /\ applications[r.app].client_id = req.client_id
    /\ r.redirect_uri = req.redirect_uri
    /\ r.scopes = req.scope
    /\ r.state = req.state
    /\ r.code_challenge = req.code_challenge
    /\ r.code_challenge_method =
           IF truthy(req.code_challenge) /\ ~truthy(req.code_challenge_method)
           THEN "plain" ELSE req.code_challenge_method

CodesBound ==
    \A r \in oauth_codes :
        /\ r.code \in DOMAIN codelog
        /\ Eligible(codelog[r.code].issued_to)
        /\ BoundTo(r, codelog[r.code].issued_to)

NoCodeOtherwise ==
    (resp'.endpoint = "authorize" /\ ~Eligible(resp'.req)) => oauth_codes' = oauth_codes

AtMostOneCode ==
    resp'.endpoint = "authorize" => Cardinality(oauth_codes' \ oauth_codes) <= 1

\* C12: every code row was created for a request with response_type code, a valid or
\* absent code_challenge_method, an active client, a registered redirect_uri and a
\* signed-in user, and carries exactly that request's user, application,
\* redirect_uri, scope, state, code_challenge and method; any other request creates
\* no row.
C12_CodeOnlyWhenEligible == []CodesBound /\ [][NoCodeOtherwise /\ AtMostOneCode]_vars

\* a code was issued to a signed-in user, with state and a challenge without method
C12_Witness ==
    \E r \in oauth_codes :
        /\ r.user = "u1" /\ r.state = "st"
        /\ r.code_challenge = "h1" /\ r.code_challenge_method = "plain"
        /\ resp.endpoint = "authorize" /\ resp.status = 307
        /\ resp.location = "https://a/cb"

(***************************************************************************)
(* The Retry-After of a rejection.                                         *)
(***************************************************************************)
\* a step in which dispatch rejects a request
RejectStep ==
    /\ last'.status = 429 /\ last' # last
    /\ now' = now /\ requests' = requests

\* whole seconds left in the window of the entry the rejected request met
WholeSecondsLeft(i, k) ==
    (window_ticks(k) - (now - requests[i][k][2])) \div TicksPerSecond

\* C13: the Retry-After of every rejection is the whole seconds remaining in the
\* current window plus 1, and lies between 1 and 60.
C13_RetryAfterRange ==
    [][RejectStep =>
           /\ last'.retry_after = WholeSecondsLeft(last'.ip, last'.key) + 1
           /\ last'.retry_after \in 1..60]_vars

(***************************************************************************)
(* Two clients of one route class: the limiter as it is and, beside it,    *)
(* the limiter that receives the requests of the first client only.        *)
(***************************************************************************)
Observed == "ip1"

FairLoad == { <<"ip1", <<"auth", "login">> >>, <<"ip2", <<"auth", "login">> >> }

InitFair ==
    /\ requests = <<>>
    /\ now = 0
    /\ inflight = 0
    /\ last = NoResponse
    /\ load = FairLoad
    /\ admits = <<>>
    /\ alone = [requests |-> <<>>, last |-> NoResponse]
    /\ InitStore

\* dispatch in both limiters: the one beside sees the observed client only; the
\* sweep is drawn from hash(client_ip + str(time.time())), the same in both
DispatchFair(client_ip, path, sweep) ==
    /\ <<client_ip, path>> \in load
    /\ ~exempt(path)
    /\ Limited(client_ip, path, sweep)
    /\ alone' =
         IF client_ip # Observed THEN alone
         ELSE LET limit_key == get_limit_key(path)
                  res == check_rate_limit(alone.requests, client_ip, limit_key, now)
              IN  [requests |-> IF res.allowed /\ sweep
                                THEN cleanup_old_entries(res.reqs, now)
                                ELSE res.reqs,
                   last |-> [ip |-> client_ip, key |-> limit_key,
                             status |-> IF res.allowed THEN 200 ELSE 429,
                             retry_after |-> res.retry_after]]
    /\ UNCHANGED <<storeVars, now, load, admits>>

\* the clock readings of this specification: the first two of each window
FairInstants == {t \in Instants : t % window_ticks("/auth/") \in {0, 1}}

\* time passes between two requests
TickFair ==
    /\ \E t \in FairInstants : t > now /\ now' = t
    /\ UNCHANGED <<storeVars, requests, inflight, last, load, admits, alone>>

NextFair ==
    \/ TickFair
    \/ \E i \in IPs, p \in Paths, s \in BOOLEAN : DispatchFair(i, p, s)
    \/ Complete

SpecFair == InitFair /\ [][NextFair]_vars

(***************************************************************************)
(* The same two clients: the limiter as it is and, beside it (in alone),   *)
(* the limiter that receives the same requests and never sweeps.           *)
(***************************************************************************)
InitSweep == InitFair

DispatchSweep(client_ip, path, sweep) ==
    /\ <<client_ip, path>> \in load
    /\ ~exempt(path)
    /\ Limited(client_ip, path, sweep)
    /\ alone' =
         LET limit_key == get_limit_key(path)
             res == check_rate_limit(alone.requests, client_ip, limit_key, now)
         IN  [requests |-> res.reqs,
              last |-> [ip |-> client_ip, key |-> limit_key,
                        status |-> IF res.allowed THEN 200 ELSE 429,
                        retry_after |-> res.retry_after]]
    /\ UNCHANGED <<storeVars, now, load, admits>>

NextSweep ==
    \/ TickFair
    \/ \E i \in IPs, p \in Paths, s \in BOOLEAN : DispatchSweep(i, p, s)
    \/ Complete

SpecSweep == InitSweep /\ [][NextSweep]_vars

\* the entry of (client_ip, limit_key) in a table, as a sequence of at most one entry
entry_of(reqs, client_ip, limit_key) ==
    IF client_ip \in DOMAIN reqs /\ limit_key \in DOMAIN reqs[client_ip]
    THEN <<reqs[client_ip][limit_key]>>
    ELSE <<>>

\* an entry the sweep removes at clock reading t
swept(entry, t) == t - entry[2] > max_window * 2 * TicksPerSecond

\* the observed client gets the answer it would get had it sent alone
SameDecision ==
    last.ip = Observed =>
        /\ last.status = alone.last.status
        /\ last.retry_after = alone.last.retry_after

\* its entry is the one it would have alone, or a sweep of another client's request
\* has removed it after twice the largest window
SameEntry ==
    \A k \in LimitKeys :
        LET mine == entry_of(requests, Observed, k)
            solo == entry_of(alone.requests, Observed, k)
        IN  \/ mine = solo
            \/ mine = <<>> /\ solo # <<>> /\ swept(solo[1], now)

\* a step in which dispatch answers a request of client last'.ip in class last'.key
DispatchStep == now' = now /\ inflight' >= inflight /\ last'.key \in LimitKeys

\* the entries of the table other than the one of the request
OtherEntries(i, k) ==
    {e \in IPs \X LimitKeys : e # <<i, k>> /\ entry_of(requests, e[1], e[2]) # <<>>}

\* dispatch leaves every other entry as it is and adds none
OnlyOwnEntry ==
    DispatchStep =>
        \A e \in IPs \X LimitKeys :
            e # <<last'.ip, last'.key>> =>
                entry_of(requests', e[1], e[2]) = entry_of(requests, e[1], e[2])

\* dispatch leaves every other entry as it is or removes it when the sweep is due
OnlyOwnEntryOrSwept ==
    DispatchStep =>
        /\ \A e \in OtherEntries(last'.ip, last'.key) :
              \/ entry_of(requests', e[1], e[2]) = entry_of(requests, e[1], e[2])
              \/ /\ entry_of(requests', e[1], e[2]) = <<>>
                 /\ swept(requests[e[1]][e[2]], now)
        /\ \A e \in IPs \X LimitKeys :
              entry_of(requests', e[1], e[2]) # <<>> =>
                  e = <<last'.ip, last'.key>> \/ e \in OtherEntries(last'.ip, last'.key)

\* C14 as stated: a request from client a in class c reads and changes only the
\* entry of (a, c), and a's decisions and Retry-After are those it gets alone.
C14_OnlyOwnEntry == []SameDecision /\ [][OnlyOwnEntry]_vars

\* C14: a request from client a in class c changes only the entry of (a, c), except
\* that its sweep removes entries of any client older than twice the largest window;
\* the decisions and Retry-After of a are the same whatever the other clients send.
C14_FairUpToSweep == [](SameDecision /\ SameEntry) /\ [][OnlyOwnEntryOrSwept]_vars

\* the observed client is admitted while the other client has used up its budget
C14_Witness ==
    /\ last.ip = Observed /\ last.status = 200
    /\ entry_of(requests, "ip2", "/auth/") # <<>>
    /\ requests["ip2"]["/auth/"][1] = max_requests("/auth/")
    /\ now - requests["ip2"]["/auth/"][2] <= window_ticks("/auth/")
    /\ requests[Observed]["/auth/"][2] > requests["ip2"]["/auth/"][2]

(***************************************************************************)
(* api/admin.py with the session: every admin request runs in the          *)
(* transaction of its own AsyncSession, writes into it statement by        *)
(* statement, and what it wrote is durable when db.commit() returns.       *)
(***************************************************************************)
\* the writes a session holds, in the order of the statements
access_add(row) == [kind |-> "access.add", row |-> row]
access_delete(rows) == [kind |-> "access.delete", rows |-> rows]
user_set(id, field, value) == [kind |-> "user.set", id |-> id, field |-> field, value |-> value]
group_add(id, name, members) == [kind |-> "group.add", id |-> id, name |-> name, members |-> members]
group_delete(id) == [kind |-> "group.delete", id |-> id]
members_set(id, members) == [kind |-> "group.members", id |-> id, members |-> members]
audit_add(row) == [kind |-> "audit", row |-> row]
code_delete(rows) == [kind |-> "code.delete", rows |-> rows]
token_delete(rows) == [kind |-> "token.delete", rows |-> rows]
application_delete(id) == [kind |-> "application.delete", id |-> id]
application_set(id, field, value) == [kind |-> "application.set", id |-> id, field |-> field, value |-> value]

\* the positions of the writes of a kind
of_kind(ws, kind) == {i \in DOMAIN ws : ws[i].kind = kind}

\* the tables once the writes ws are durable
access_after(acc, ws) ==
    LET deleted == UNION {ws[i].rows : i \in of_kind(ws, "access.delete")}
        added == {ws[i].row : i \in of_kind(ws, "access.add")}
        gone == {ws[i].id : i \in of_kind(ws, "group.delete")}
    IN  {r \in (acc \ deleted) \cup added : r.group \notin gone}

users_after(us, ws) ==
    LET sets(u, f) == {i \in of_kind(ws, "user.set") : ws[i].id = u /\ ws[i].field = f}
        set_to(u, f, old) == IF sets(u, f) = {} THEN old
                             ELSE ws[CHOOSE i \in sets(u, f) : TRUE].value
    IN  [u \in DOMAIN us |->
            [us[u] EXCEPT !.is_active = set_to(u, "is_active", @),
                          !.is_admin = set_to(u, "is_admin", @)]]

groups_after(gs, ws) ==
    LET gone == {ws[i].id : i \in of_kind(ws, "group.delete")}
        added == of_kind(ws, "group.add")
        ids == (DOMAIN gs \cup {ws[i].id : i \in added}) \ gone
        set == of_kind(ws, "group.members")
    IN  [g \in ids |->
            IF g \in DOMAIN gs
            THEN IF \E j \in set : ws[j].id = g
                 THEN [gs[g] EXCEPT !.members = ws[CHOOSE j \in set : ws[j].id = g].members]
                 ELSE gs[g]
            ELSE LET i == CHOOSE j \in added : ws[j].id = g
                 IN  [name |-> ws[i].name, members |-> ws[i].members]]

audit_after(logs, ws) ==
    LET rows == SelectSeq(ws, LAMBDA w : w.kind = "audit")
    IN  logs \o [i \in DOMAIN rows |-> rows[i].row]

\* what of a request is durable: its mutation, its audit row
durable_after(d, ws) ==
    [mutation |-> d.mutation \/ \E i \in DOMAIN ws : ws[i].kind # "audit",
     audit |-> d.audit \/ of_kind(ws, "audit") # {}]

\* the principal of an access row within its application
pair_of(r) == <<r.app, r.user, r.group>>

\* a table without a constraint
unconstrained(rows) == TRUE

\* the table's constraint: one row per (application, user) and (application, group)
unique_per_principal(rows) ==
    \A r1, r2 \in rows : pair_of(r1) = pair_of(r2) => r1 = r2

\* tables whose application_id is a plain column
references_unchecked(apps, codes, tokens, rows) == TRUE

\* the foreign keys on application_id: every code, token and access row names an
\* application that exists
references_hold(apps, codes, tokens, rows) ==
    /\ \A r \in codes : r.app \in DOMAIN apps
    /\ \A r \in tokens : r.app \in DOMAIN apps
    /\ \A r \in rows : r.app \in DOMAIN apps

\* a session has sent the INSERT of an access row of the application and not yet
\* committed: it holds the application's row against a delete
holds_reference(application_id) ==
    \E t \in DOMAIN tasks :
        /\ tasks[t].pc = "commit"
        /\ \E i \in of_kind(tasks[t].writes, "access.add") :
               tasks[t].writes[i].row.app = application_id

\* a flush that commits
flush_commits(ws) == Len(ws)

\* await db.flush(): the writes reach the database inside the transaction; the
\* number of them that are durable afterwards
flush(ws) == 0

\* the request of task t is over: its answer, and nothing of the session is left
finish(t, status, failed_at) ==
    /\ resp' = [endpoint |-> tasks[t].op, status |-> status, count |-> tasks[t].n,
                args |-> tasks[t].args, failed_at |-> failed_at,
                durable |-> tasks[t].durable]
    /\ tasks' = [u \in DOMAIN tasks \ {t} |-> tasks[u]]

\* a request is refused before it wrote anything
refuse(endpoint, status) ==
    /\ resp' = [endpoint |-> endpoint, status |-> status, count |-> 0,
                args |-> <<>>, failed_at |-> "begin", durable |-> [mutation |-> FALSE, audit |-> FALSE]]
    /\ UNCHANGED tasks

\* the request becomes task t, the first free task name, with its first writes
begin(t, limit, op, args, todo, ws, n, pc) ==
    /\ t \in 1..limit /\ t \notin DOMAIN tasks
    /\ \A u \in 1..(t - 1) : u \in DOMAIN tasks
    /\ tasks' = [u \in DOMAIN tasks \cup {t} |->
                    IF u = t
                    THEN [op |-> op, args |-> args, pc |-> pc, todo |-> todo,
                          writes |-> ws, n |-> n,
                          durable |-> [mutation |-> FALSE, audit |-> FALSE]]
                    ELSE tasks[u]]
    /\ UNCHANGED resp

sessionFrame ==
    UNCHANGED <<limVars, login_history, applications, oauth_codes, oauth_tokens, clock, codelog, revoked>>

storeFrame == UNCHANGED <<users, groups, access, audit_logs>>

\* the ids of the access rows, committed or held by a session
row_ids ==
    {r.id : r \in access} \cup
    UNION {{tasks[t].writes[i].row.id : i \in of_kind(tasks[t].writes, "access.add")} :
              t \in DOMAIN tasks}

\* ApplicationAccess(...): the new row gets an id of its own
new_access_row(user, group, application_id) ==
    [id |-> CHOOSE n \in 1..(Cardinality(row_ids) + 1) : n \notin row_ids,
     user |-> user, group |-> group, app |-> application_id]

\* a check that finds nothing
existing_never(rows, application_id, user, group) == FALSE

\* select(ApplicationAccess).where(...).scalar_one_or_none() is not None
existing_access(rows, application_id, user, group) ==
    \E r \in rows : r.app = application_id /\ r.user = user /\ r.group = group

\* the principals of a grant in the order of its two loops
principals(user_ids, group_ids) ==
    [i \in 1..(Len(user_ids) + Len(group_ids)) |->
        IF i <= Len(user_ids) THEN <<"user", user_ids[i]>>
        ELSE <<"group", group_ids[i - Len(user_ids)]>>]

\* POST /api/admin/access/grant, up to the loops
grant_begin(t, limit, admin, application_id, user_ids, group_ids) ==
    /\ get_current_admin(admin)
    /\ IF application_id \notin DOMAIN applications
       THEN refuse("grant_access", 404)
       ELSE LET todo == principals(user_ids, group_ids) IN
            begin(t, limit, "grant_access",
                  [admin |-> admin, entity_type |-> "application",
                   entity_id |-> application_id, principals |-> todo],
                  todo, <<>>, 0, IF todo = <<>> THEN "commit" ELSE "check")
    /\ UNCHANGED issued /\ storeFrame /\ sessionFrame

\* one turn of a loop of grant_access: the SELECT sees the committed rows, and the
\* rows of its own session if the session flushes before it queries (autoflush)
grant_check(t, autoflush) ==
    /\ t \in DOMAIN tasks /\ tasks[t].pc = "check"
    /\ LET task == tasks[t]
           p == Head(task.todo)
           user == IF p[1] = "user" THEN p[2] ELSE None
           group == IF p[1] = "group" THEN p[2] ELSE None
           own == IF autoflush
                  THEN {task.writes[i].row : i \in of_kind(task.writes, "access.add")}
                  ELSE {}
           existing == existing_access(access \cup own, task.args.entity_id, user, group)
           ws == IF existing THEN task.writes
                 ELSE Append(task.writes,
                             access_add(new_access_row(user, group, task.args.entity_id)))
           n == IF existing THEN task.n ELSE task.n + 1
       IN  tasks' = [tasks EXCEPT ![t].todo = Tail(task.todo),
                                  ![t].writes = ws,
                                  ![t].n = n,
                                  ![t].pc = IF Tail(task.todo) # <<>> THEN "check"
                                            ELSE IF n > 0 THEN "log" ELSE "commit"]
    /\ UNCHANGED <<resp, issued>> /\ storeFrame /\ sessionFrame

\* POST /api/admin/access/revoke, up to the audit row: the DELETE statements
revoke_begin(t, limit, admin, application_id, user_ids, group_ids) ==
    /\ get_current_admin(admin)
    /\ LET matched == {r \in access : /\ r.app = application_id
                                      /\ r.user \in user_ids \/ r.group \in group_ids}
       IN  begin(t, limit, "revoke_access",
                [admin |-> admin, entity_type |-> "application",
                 entity_id |-> application_id, user_ids |-> user_ids,
                 group_ids |-> group_ids],
                <<>>, IF matched = {} THEN <<>> ELSE <<access_delete(matched)>>,
                Cardinality(matched),
                IF matched = {} THEN "commit" ELSE "log")
    /\ UNCHANGED issued /\ storeFrame /\ sessionFrame

\* PATCH /api/admin/users/{user_id}, up to the audit row
update_user_begin(t, limit, admin, user_id, is_active, is_admin) ==
    /\ get_current_admin(admin)
    /\ IF user_id \notin DOMAIN users THEN refuse("update_user", 404)
       ELSE IF user_id = admin /\ is_admin = <<FALSE>> THEN refuse("update_user", 400)
       ELSE LET user == users[user_id]
                active == IF Given(is_active) /\ user.is_active # is_active[1]
                          THEN <<user_set(user_id, "is_active", is_active[1])>> ELSE <<>>
                adm == IF Given(is_admin) /\ user.is_admin # is_admin[1]
                       THEN <<user_set(user_id, "is_admin", is_admin[1])>> ELSE <<>>
            IN  begin(t, limit, "update_user",
                      [admin |-> admin, entity_type |-> "user", entity_id |-> user_id],
                      <<>>, active \o adm, Len(active \o adm),
                      IF active \o adm = <<>> THEN "commit" ELSE "log")
    /\ UNCHANGED issued /\ storeFrame /\ sessionFrame

\* what a bulk action sets, and to what
bulk_field(action) == IF action \in {"activate", "deactivate"} THEN "is_active" ELSE "is_admin"

bulk_value(action) == action \in {"activate", "make_admin"}

\* POST /api/admin/users/bulk, up to the audit row
bulk_user_action_begin(t, limit, admin, action, user_ids) ==
    /\ get_current_admin(admin)
    /\ IF (\E i \in DOMAIN user_ids : user_ids[i] = admin)
            /\ action \in {"deactivate", "remove_admin"}
       THEN refuse("bulk_user_action", 400)
       ELSE LET found == SelectSeq(user_ids, LAMBDA u : u \in DOMAIN users)
                changed == SelectSeq(found, LAMBDA u :
                               /\ users[u][bulk_field(action)] # bulk_value(action)
                               /\ action = "remove_admin" => u # admin)
                ws == [i \in DOMAIN changed |->
                          user_set(changed[i], bulk_field(action), bulk_value(action))]
            IN  begin(t, limit, "bulk_user_action",
                      [admin |-> admin, entity_type |-> "user", entity_id |-> None],
                      <<>>, ws, Len(ws), IF ws = <<>> THEN "commit" ELSE "log")
    /\ UNCHANGED issued /\ storeFrame /\ sessionFrame

\* POST /api/admin/groups, up to the audit row
create_group_begin(t, limit, admin, name, member_ids) ==
    /\ get_current_admin(admin)
    /\ IF \E g \in DOMAIN groups : groups[g].name = name
       THEN refuse("create_group", 400) /\ UNCHANGED issued
       ELSE LET id == group_value(issued.groups + 1) IN
            /\ issued.groups < MaxGroups
            /\ issued' = [issued EXCEPT !.groups = @ + 1]
            /\ begin(t, limit, "create_group",
                     [admin |-> admin, entity_type |-> "group", entity_id |-> id],
                     <<>>, <<group_add(id, name, member_ids \cap DOMAIN users)>>, 1,
                     "log")
    /\ storeFrame /\ sessionFrame

\* DELETE /api/admin/groups/{group_id}, up to the audit row
delete_group_begin(t, limit, admin, group_id) ==
    /\ get_current_admin(admin)
    /\ IF group_id \notin DOMAIN groups THEN refuse("delete_group", 404)
       ELSE begin(t, limit, "delete_group",
                  [admin |-> admin, entity_type |-> "group", entity_id |-> group_id],
                  <<>>, <<>>, 0, "log")
    /\ UNCHANGED issued /\ storeFrame /\ sessionFrame

\* POST /api/admin/groups/{group_id}/members, up to its commit; it writes no audit
\* row
add_group_members_begin(t, limit, admin, group_id, action, user_ids) ==
    /\ get_current_admin(admin)
    /\ IF group_id \notin DOMAIN groups THEN refuse("add_group_members", 404)
       ELSE LET found == user_ids \cap DOMAIN users
                current_member_ids == groups[group_id].members
                members == IF action = "add" THEN current_member_ids \cup found
                           ELSE IF action = "remove" THEN current_member_ids \ user_ids
                           ELSE current_member_ids
                updated == IF action = "add" THEN Cardinality(found \ current_member_ids)
                           ELSE IF action = "remove" THEN Cardinality(user_ids)
                           ELSE 0
            IN  begin(t, limit, "add_group_members",
                      [admin |-> admin, entity_type |-> "group", entity_id |-> group_id,
                       action |-> action],
                      <<>>,
                      IF members # current_member_ids
                      THEN <<members_set(group_id, members)>> ELSE <<>>,
                      updated, "commit")
    /\ UNCHANGED issued /\ storeFrame /\ sessionFrame

\* the action tag of a handler's audit row
audit_action(op) ==
    IF op = "grant_access" THEN "access.grant"
    ELSE IF op = "revoke_access" THEN "access.revoke"
    ELSE IF op = "update_user" THEN "user.update"
    ELSE IF op = "bulk_user_action" THEN "user.bulk"
    ELSE IF op = "create_group" THEN "group.create"
    ELSE "group.delete"

\* AuditService.log_action in the session of task t: db.add(audit_log), db.flush()
session_log(t) ==
    /\ t \in DOMAIN tasks /\ tasks[t].pc = "log"
    /\ Len(audit_logs) < MaxAudit
    /\ LET task == tasks[t]
           row == log_action(<<>>, task.args.admin, audit_action(task.op),
                             task.args.entity_type, task.args.entity_id)[1]
           ws == Append(task.writes, audit_add(row))
           out == SubSeq(ws, 1, flush(ws))
           inserted == {ws[i].row : i \in of_kind(ws, "access.add")}
       IN  IF ~references_hold(applications, {}, {}, inserted)
           THEN finish(t, 500, "constraint") /\ storeFrame
           ELSE
           /\ access' = access_after(access, out)
           /\ users' = users_after(users, out)
           /\ groups' = groups_after(groups, out)
           /\ audit_logs' = audit_after(audit_logs, out)
           /\ tasks' = [tasks EXCEPT
                  ![t].writes = SubSeq(ws, flush(ws) + 1, Len(ws)),
                  ![t].durable = durable_after(task.durable, out),
                  ![t].pc = IF task.op = "delete_group" THEN "mutate" ELSE "commit"]
           /\ UNCHANGED resp
    /\ UNCHANGED issued /\ sessionFrame

\* delete_group after its audit row: db.delete(group)
delete_group_mutate(t) ==
    /\ t \in DOMAIN tasks /\ tasks[t].pc = "mutate"
    /\ tasks' = [tasks EXCEPT
           ![t].writes = Append(@, group_delete(tasks[t].args.entity_id)),
           ![t].pc = "commit"]
    /\ UNCHANGED <<resp, issued>> /\ storeFrame /\ sessionFrame

\* await db.commit(): all the writes of the session are durable, or, if the table
\* refuses them, none
session_commit(t) ==
    /\ t \in DOMAIN tasks /\ tasks[t].pc = "commit"
    /\ LET task == tasks[t] IN
       IF unique_per_principal(access_after(access, task.writes))
       THEN /\ access' = access_after(access, task.writes)
            /\ users' = users_after(users, task.writes)
            /\ groups' = groups_after(groups, task.writes)
            /\ audit_logs' = audit_after(audit_logs, task.writes)
            /\ resp' = [endpoint |-> task.op, status |-> 200, count |-> task.n,
                        args |-> task.args, failed_at |-> "",
                        durable |-> durable_after(task.durable, task.writes)]
            /\ tasks' = [u \in DOMAIN tasks \ {t} |-> tasks[u]]
       ELSE finish(t, 500, "constraint") /\ storeFrame
    /\ UNCHANGED issued /\ sessionFrame

\* the request fails before its commit (an exception, a lost connection): the
\* session is closed and its transaction rolled back
session_fail(t) ==
    /\ t \in DOMAIN tasks
    /\ finish(t, 500, tasks[t].pc)
    /\ UNCHANGED issued /\ storeFrame /\ sessionFrame

(***************************************************************************)
(* api/applications.py: DELETE /api/applications/{app_id}                  *)
(***************************************************************************)
\* the tables of the applications, codes and tokens once the writes ws are durable
applications_after(apps, ws) ==
    LET gone == {ws[i].id : i \in of_kind(ws, "application.delete")}
        off == {ws[i].id : i \in of_kind(ws, "application.set")}
    IN  [a \in DOMAIN apps \ gone |->
            IF a \in off THEN [apps[a] EXCEPT !.is_active = FALSE] ELSE apps[a]]

codes_after(codes, ws) == codes \ UNION {ws[i].rows : i \in of_kind(ws, "code.delete")}

tokens_after(tokens, ws) == tokens \ UNION {ws[i].rows : i \in of_kind(ws, "token.delete")}

\* delete_application up to its commit: the lookup and, if permanent, the three
\* DELETE statements on the rows of the application, and db.delete(application)
delete_application_begin(t, limit, admin, app_id, permanent) ==
    /\ get_current_admin(admin)
    /\ IF app_id \notin DOMAIN applications THEN refuse("delete_application", 404)
       ELSE IF permanent
       THEN /\ \A r \in oauth_codes : r.app = app_id => ~locked(r.code)
            /\ begin(t, limit, "delete_application",
                     [admin |-> admin, entity_type |-> "application",
                      entity_id |-> app_id, permanent |-> TRUE],
                     <<>>,
                     <<code_delete({r \in oauth_codes : r.app = app_id}),
                       token_delete({r \in oauth_tokens : r.app = app_id}),
                       access_delete({r \in access : r.app = app_id}),
                       application_delete(app_id)>>,
                     0, "delete")
       ELSE begin(t, limit, "delete_application",
                  [admin |-> admin, entity_type |-> "application",
                   entity_id |-> app_id, permanent |-> FALSE],
                  <<>>, <<application_set(app_id, "is_active", FALSE)>>, 0, "delete")
    /\ UNCHANGED <<issued, applications, oauth_codes, oauth_tokens, codelog>>
    /\ storeFrame /\ UNCHANGED <<limVars, login_history, clock, revoked>>

\* await db.commit() of delete_application: the DELETE of the application is sent
\* and waits for the sessions that hold its row; the rows that still name it are
\* deleted with it (ON DELETE CASCADE) or make the commit fail, as the schema says
delete_application_commit(t, cascade) ==
    /\ t \in DOMAIN tasks /\ tasks[t].pc = "delete"
    /\ LET task == tasks[t]
           app_id == task.args.entity_id
           apps == applications_after(applications, task.writes)
           codes == codes_after(oauth_codes, task.writes)
           tokens == tokens_after(oauth_tokens, task.writes)
           rows == access_after(access, task.writes)
           kept(table) == IF cascade THEN {r \in table : r.app \in DOMAIN apps} ELSE table
       IN  /\ task.args.permanent => ~holds_reference(app_id)
           /\ IF cascade \/ references_hold(apps, codes, tokens, rows)
              THEN /\ applications' = apps
                   /\ oauth_codes' = kept(codes)
                   /\ oauth_tokens' = kept(tokens)
                   /\ access' = kept(rows)
                   /\ resp' = [endpoint |-> task.op, status |-> 204, count |-> task.n,
                               args |-> task.args, failed_at |-> "",
                               durable |-> durable_after(task.durable, task.writes)]
                   /\ tasks' = [u \in DOMAIN tasks \ {t} |-> tasks[u]]
              ELSE /\ finish(t, 500, "constraint")
                   /\ UNCHANGED <<applications, oauth_codes, oauth_tokens, access>>
    /\ UNCHANGED <<users, groups, audit_logs, issued, codelog>>
    /\ UNCHANGED <<limVars, login_history, clock, revoked>>

(***************************************************************************)
(* Concurrent grants and revokes of one application.                       *)
(***************************************************************************)
ProvisionedGroups == [g \in {group_value(1)} |-> [name |-> "staff", members |-> {"u1"}]]

InitGrant ==
    /\ requests = <<>> /\ now = 0 /\ inflight = 0 /\ last = NoResponse
    /\ load = {} /\ admits = <<>> /\ alone = <<>>
    /\ applications = ProvisionedApps
    /\ users = ProvisionedUsers
    /\ groups = ProvisionedGroups
    /\ access = {}
    /\ audit_logs = <<>>
    /\ oauth_codes = {} /\ oauth_tokens = {}
    /\ issued = [codes |-> 0, tokens |-> 0, groups |-> 1]
    /\ clock = 0
    /\ tasks = <<>>
    /\ resp = NoResp
    /\ codelog = <<>> /\ revoked = {} /\ login_history = <<>>

\* the grants sent: a user, the same user twice, a group
GrantRequests == { << <<"u2">>, <<>> >>, << <<"u2", "u2">>, <<>> >>,
                   << <<>>, <<group_value(1)>> >> }

\* the sessions of two administrators at work at the same time
Sessions == 1..2

NextGrant ==
    \/ \E t \in Sessions, r \in GrantRequests :
           grant_begin(t, Cardinality(Sessions), "adm", "A", r[1], r[2])
    \/ \E t \in Sessions :
        \/ \E autoflush \in BOOLEAN : grant_check(t, autoflush)
        \/ session_log(t)
        \/ session_commit(t)

SpecGrant == InitGrant /\ [][NextGrant]_vars

\* the requests for application A that run while it is deleted
DeleteLoad ==
    [authorize |-> AuthorizeRequest("code", "cA", "https://a/cb", None, None, None, "u1"),
     token |-> TokenRequest("authorization_code", code_value(1), "https://a/cb", "cA", "sA",
                            None, None),
     grant |-> <<"u2">>]

InitDelete == InitAuthorize

NextDelete ==
    \/ Authorize(DeleteLoad.authorize)
    \/ TokenExchange(DeleteLoad.token)
    \/ \E t \in Sessions :
        \/ grant_begin(t, Cardinality(Sessions), "adm", "A", DeleteLoad.grant, <<>>)
        \/ \E autoflush \in BOOLEAN : grant_check(t, autoflush)
        \/ session_log(t)
        \/ session_commit(t)
        \/ \E permanent \in BOOLEAN :
               delete_application_begin(t, Cardinality(Sessions), "adm", "A", permanent)
        \/ \E cascade \in BOOLEAN : delete_application_commit(t, cascade)

SpecDelete == InitDelete /\ [][NextDelete]_vars

(***************************************************************************)
(* One administrator, one request at a time: the counts the mutations      *)
(* report.                                                                 *)
(***************************************************************************)
InitCount == InitGrant

NextCount ==
    \/ \E user_ids \in {<<"u2">>, <<"u1", "u2">>}, group_ids \in {<<>>, <<group_value(1)>>} :
           grant_begin(1, 1, "adm", "A", user_ids, group_ids)
    \/ grant_check(1, TRUE)
    \/ \E user_ids \in {{"u2"}, {"u1", "u2"}}, group_ids \in {{}, {group_value(1)}} :
           revoke_begin(1, 1, "adm", "A", user_ids, group_ids)
    \/ \E action \in {"activate", "deactivate", "make_admin", "remove_admin"},
          user_ids \in {<<"u1">>, <<"u1", "u2">>, <<"adm", "u1">>} :
           bulk_user_action_begin(1, 1, "adm", action, user_ids)
    \/ \E action \in {"add", "remove"}, user_ids \in {{"u1"}, {"u2"}, {"u1", "u2"}} :
           add_group_members_begin(1, 1, "adm", group_value(1), action, user_ids)
    \/ session_log(1)
    \/ session_commit(1)

SpecCount == InitCount /\ [][NextCount]_vars

\* C15: in every state the table holds at most one row per (application, user) and
\* at most one per (application, group), also after concurrent grants of the same
\* principal and after a grant that lists a principal more than once.
C15_UniqueAccess ==
    \A r1, r2 \in access :
        (r1.app = r2.app /\ r1.user = r2.user /\ r1.group = r2.group) => r1.id = r2.id

\* a grant of one row that ran beside another grant of the same principal was
\* refused at its commit, and the principal holds its row
C15_Witness ==
    /\ resp.endpoint = "grant_access" /\ resp.status = 500
    /\ resp.failed_at = "constraint" /\ resp.count = 1
    /\ resp.args.principals = << <<"user", "u2">> >>
    /\ \E r \in access : r.app = "A" /\ r.user = "u2"

(***************************************************************************)
(* The audited mutations one after the other, each of which may fail at    *)
(* any statement.                                                          *)
(***************************************************************************)
InitDurable == InitAuthorize

NextDurable ==
    \/ \E group_ids \in {<<>>} \cup {<<g>> : g \in DOMAIN groups} :
           grant_begin(1, 1, "adm", "A", <<"u2">>, group_ids)
    \/ \E user_ids \in {{"u2"}, {"u1"}}, group_ids \in {{}, DOMAIN groups} :
           revoke_begin(1, 1, "adm", "A", user_ids, group_ids)
    \/ \E user_id \in {"adm", "u1"}, p \in UserUpdates :
           update_user_begin(1, 1, "adm", user_id, p[1], p[2])
    \/ \E action \in {"deactivate", "make_admin"} :
           bulk_user_action_begin(1, 1, "adm", action, <<"u1", "u2">>)
    \/ create_group_begin(1, 1, "adm", "staff", {"u1"})
    \/ \E g \in GroupIds : delete_group_begin(1, 1, "adm", g)
    \/ \E autoflush \in BOOLEAN : grant_check(1, autoflush)
    \/ session_log(1)
    \/ delete_group_mutate(1)
    \/ session_commit(1)
    \/ session_fail(1)

SpecDurable == InitDurable /\ [][NextDurable]_vars

(***************************************************************************)
(* Two administrators change each other's flags in concurrent sessions.    *)
(***************************************************************************)
InitAdmins ==
    /\ requests = <<>> /\ now = 0 /\ inflight = 0 /\ last = NoResponse
    /\ load = {} /\ admits = <<>> /\ alone = <<>>
    /\ applications = ProvisionedApps
    /\ users = [ProvisionedUsers EXCEPT !["u1"].is_admin = TRUE]
    /\ groups = <<>> /\ access = {} /\ audit_logs = <<>>
    /\ oauth_codes = {} /\ oauth_tokens = {}
    /\ issued = [codes |-> 0, tokens |-> 0, groups |-> 0]
    /\ clock = 0 /\ tasks = <<>> /\ resp = NoResp
    /\ codelog = <<>> /\ revoked = {} /\ login_history = <<>>

NextAdmins ==
    \/ \E t \in Sessions, admin \in {"adm", "u1"}, user_id \in {"adm", "u1"},
          is_admin \in {<<TRUE>>, <<FALSE>>} :
           update_user_begin(t, 2, admin, user_id, <<>>, is_admin)
    \/ \E t \in Sessions, admin \in {"adm", "u1"},
          user_ids \in {<<"adm">>, <<"u1">>, <<"adm", "u1">>} :
           bulk_user_action_begin(t, 2, admin, "remove_admin", user_ids)
    \/ \E t \in Sessions : session_log(t)
    \/ \E t \in Sessions : session_commit(t)

SpecAdmins == InitAdmins /\ [][NextAdmins]_vars

\* a step in which a grant request is answered
GrantAnswered == resp'.endpoint = "grant_access" /\ tasks # tasks' /\ tasks' = <<>>

\* a step in which a revoke request is answered
RevokeAnswered == resp'.endpoint = "revoke_access" /\ tasks # tasks' /\ tasks' = <<>>

\* every principal of the grant request holds a row already
Regrant(args) ==
    \A i \in DOMAIN args.principals :
        \E r \in access :
            /\ r.app = args.entity_id
            /\ r.user = (IF args.principals[i][1] = "user" THEN args.principals[i][2] ELSE None)
            /\ r.group = (IF args.principals[i][1] = "group" THEN args.principals[i][2] ELSE None)

\* no principal of the revoke request holds a row
NothingToRevoke(args) ==
    ~\E r \in access :
        r.app = args.entity_id /\ (r.user \in args.user_ids \/ r.group \in args.group_ids)

StoreUnchanged == UNCHANGED <<applications, users, groups, access, audit_logs>>

\* C16: a grant request applied again reports granted = 0 and leaves the
\* ApplicationAccess rows and the audit log as the first call left them; a revoke that
\* names only principals without a grant reports revoked = 0 and changes nothing.
C16_GrantIdempotent ==
    [][/\ (GrantAnswered /\ Regrant(resp'.args)) =>
              /\ StoreUnchanged
              /\ resp'.failed_at # "constraint"
              /\ resp'.status = 200 => resp'.count = 0
       /\ (RevokeAnswered /\ NothingToRevoke(resp'.args)) =>
              /\ StoreUnchanged
              /\ resp'.status = 200 => resp'.count = 0]_vars

\* the grant of a user and a group was applied a second time
C16_Witness ==
    /\ resp.endpoint = "grant_access" /\ resp.status = 200 /\ resp.count = 0
    /\ resp.args.principals = << <<"user", "u2">>, <<"group", group_value(1)>> >>
    /\ Cardinality({i \in DOMAIN audit_logs : audit_logs[i].action = "access.grant"}) = 1
    /\ Cardinality(access) = 2

\* what administrators change
AdminStore == <<users, groups, access>>

\* of every request, running or answered, the mutation is durable exactly if its
\* audit row is
DurableAlike ==
    /\ \A t \in DOMAIN tasks : tasks[t].durable.mutation = tasks[t].durable.audit
    /\ resp.endpoint # "none" => resp.durable.mutation = resp.durable.audit

\* a step changes the tables exactly if it adds one audit row, and the step is the
\* commit of the request that wrote both
CommittedTogether ==
    /\ AdminStore' # AdminStore <=> audit_logs' # audit_logs
    /\ audit_logs' # audit_logs =>
          /\ Len(audit_logs') = Len(audit_logs) + 1
          /\ tasks' = <<>> /\ tasks # <<>>
          /\ resp'.endpoint # "none" /\ resp'.status = 200
          /\ audit_logs'[Len(audit_logs')].action = audit_action(resp'.endpoint)

\* C17: of an audited admin mutation (user update, bulk user action, group create,
\* group delete, access grant, access revoke) the mutation and the AuditLog row
\* become durable together: no committed state has one without the other, also when
\* the request fails between the two writes.
C17_DurableTogether == []DurableAlike /\ [][CommittedTogether]_vars

\* delete_group failed after its audit row was flushed and before db.delete: the
\* group is there and no audit row is
C17_Witness ==
    /\ resp.endpoint = "delete_group" /\ resp.status = 500 /\ resp.failed_at = "mutate"
    /\ resp.args.entity_id \in DOMAIN groups
    /\ \A i \in DOMAIN audit_logs : audit_logs[i].action # "group.delete"


\* ---------------------------------------------------------------------------
\* The login redirect of authorize

\* authorize answered an anonymous request of a known client with a registered
\* redirect_uri
AnonymousRedirect ==
    /\ resp.endpoint = "authorize" /\ resp.status = 307
    /\ resp.location = "/auth/sso/login"

\* the query of the return URL, as the login route reads it from redirect_to
Replayed == query_of(query_param(resp.query, "redirect_to"))

\* the parameters of the request authorize answered, as texts
Original ==
    [response_type |-> text_of(resp.req.response_type),
     client_id |-> text_of(resp.req.client_id),
     redirect_uri |-> text_of(resp.req.redirect_uri),
     scope |-> scope_text(resp.req.scope),
     state |-> text_of(or_empty(resp.req.state)),
     code_challenge |-> text_of(or_empty(resp.req.code_challenge)),
     code_challenge_method |->
        text_of(or_empty(effective_method(resp.req.code_challenge,
                                          resp.req.code_challenge_method)))]

\* C18: when authorize answers an anonymous request of a valid client with a
\* registered redirect_uri, it creates no code and redirects to the SSO login
\* route with a redirect_to from which the replayed flow recovers response_type,
\* client_id, redirect_uri, scope, state, code_challenge and
\* code_challenge_method unchanged (an absent parameter counts as recovered when
\* it comes back empty, code_challenge_method when it comes back as the method
\* authorize went on with)
C18_LoginReplay ==
    AnonymousRedirect =>
        /\ resp.req.current_user = None
        /\ \A r \in oauth_codes : codelog[r.code].issued_to # resp.req
        /\ \A p \in DOMAIN Original :
              (p \in {"code_challenge", "code_challenge_method"}
                    /\ ~truthy(resp.req.code_challenge))
              \/ query_param(Replayed, p) = Original[p]

\* what holds of the code: no code, and the return URL itself carries every
\* parameter; only response_type survives the login route's reading of it
C18_ReturnUrlCarriesAll ==
    AnonymousRedirect =>
        /\ resp.req.current_user = None
        /\ \A r \in oauth_codes : codelog[r.code].issued_to # resp.req
        /\ \A p \in DOMAIN Original :
              (p \in {"code_challenge", "code_challenge_method"}
                    /\ ~truthy(resp.req.code_challenge))
              \/ query_param(query_of(return_url(resp.req,
                        effective_method(resp.req.code_challenge,
                                         resp.req.code_challenge_method))), p)
                    = Original[p]
        /\ query_param(Replayed, "response_type") = Original.response_type
        /\ query_param(Replayed, "client_id") = <<>>

\* ---------------------------------------------------------------------------
\* GET /oauth/userinfo

\* userinfo has answered
UserinfoStep == resp'.endpoint = "userinfo" /\ resp' # resp

\* the answer carries a user, the owner of the access token presented after
\* "Bearer ", which is known, not expired and not revoked
ClaimsOfOwner ==
    /\ resp'.status = 200
    /\ \E r \in oauth_tokens :
          /\ r.token = resp'.token /\ r.kind = "access"
          /\ r.revoked_at = NULL /\ ~(clock > r.expires_at)
          /\ r.user = resp'.user

\* C19: userinfo returns claims only when the Authorization header is "Bearer "
\* followed by a known, unexpired, unrevoked access token, and the claims are
\* those of the user who owns the token; an absent or malformed header and an
\* unknown, expired or revoked token are rejected with 401, without user data
C19_UserinfoBearerOnly ==
    [][UserinfoStep => \/ ClaimsOfOwner
                       \/ resp'.status = 401 /\ resp'.user = None]_vars

\* what holds of the code: a request without the header is rejected with 422,
\* every other rejection is a 401, and no rejection carries a user
C19_RejectsWithoutData ==
    [][UserinfoStep => \/ ClaimsOfOwner
                       \/ resp'.status = 401 /\ resp'.user = None
                       \/ resp'.status = 422 /\ resp'.user = None
                                /\ resp'.token = None]_vars

\* ---------------------------------------------------------------------------
\* POST /oauth/revoke

\* revoke_token has answered
RevokeStep == resp'.endpoint = "revoke" /\ (resp' # resp \/ oauth_tokens' # oauth_tokens)

\* the application the client of the answered revocation named, None if unknown
RevokingApplication == get_application_by_client_id(applications, resp'.req.client_id)

\* the client of the answered revocation is known and presented its secret
RevokerAuthenticated ==
    /\ RevokingApplication # None
    /\ verify_secret(resp'.req.client_secret,
                     applications[RevokingApplication].client_secret_hash)

\* C20: a revocation sent by one client leaves every token row issued to a
\* different client as it was, revoked_at included, and a revocation that fails
\* client authentication (unknown client_id or wrong client_secret) changes no
\* token at all
C20_RevokeOwnTokensOnly ==
    [][RevokeStep =>
        /\ \A r \in oauth_tokens : r.app # RevokingApplication => r \in oauth_tokens'
        /\ ~RevokerAuthenticated => oauth_tokens' = oauth_tokens]_vars

\* client B, authenticated, asked to revoke a token issued to client A, which is
\* still not revoked
C20_Witness ==
    /\ resp.endpoint = "revoke" /\ resp.status = 200
    /\ resp.req.client_id = "cB" /\ resp.req.client_secret = "sB"
    /\ \E r \in oauth_tokens :
          r.token = resp.req.token /\ r.app = "A" /\ r.revoked_at = NULL
    /\ resp.req.token \notin revoked

\* ---------------------------------------------------------------------------
\* POST /api/admin/cleanup-tokens

\* cleanup_tokens has answered
CleanupStep ==
    /\ resp'.endpoint = "cleanup-tokens"
    /\ resp' # resp \/ oauth_codes' # oauth_codes \/ oauth_tokens' # oauth_tokens

\* of the rows before, those with expires_at < now are gone and the others are
\* there as they were; no row is new
SweptExactly(before, after) ==
    /\ after \subseteq before
    /\ \A r \in before : (r.expires_at < clock) <=> (r \notin after)

\* C21: cleanup-tokens deletes exactly the code rows and token rows whose
\* expires_at < now, leaves every other row unchanged whether or not it is
\* consumed or revoked, and reports as deleted_codes and deleted_tokens the
\* number of rows of each kind it removed
C21_CleanupExactlyExpired ==
    [][CleanupStep =>
        /\ SweptExactly(oauth_codes, oauth_codes')
        /\ SweptExactly(oauth_tokens, oauth_tokens')
        /\ resp'.deleted_codes = Cardinality(oauth_codes \ oauth_codes')
        /\ resp'.deleted_tokens = Cardinality(oauth_tokens \ oauth_tokens')]_vars

\* the sweep has removed a code and a token and kept a revoked token that is
\* not expired
C21_Witness ==
    /\ resp.endpoint = "cleanup-tokens"
    /\ resp.deleted_codes >= 1 /\ resp.deleted_tokens >= 1
    /\ \E r \in oauth_tokens : r.revoked_at # NULL /\ ~(r.expires_at < clock)

\* ---------------------------------------------------------------------------
\* POST /oauth/token: the requests it refuses by itself

\* the token endpoint has answered a request that is neither a code grant with
\* code and redirect_uri nor a refresh grant with refresh_token
RefusedStep ==
    /\ resp'.endpoint = "token" /\ resp' # resp
    /\ ~reaches_exchange(resp'.req)
    /\ ~(resp'.req.grant_type = "refresh_token" /\ truthy(resp'.req.refresh_token))

\* the request failed, consumed no code and created or revoked no token
RefusedChangesNothing ==
    /\ resp'.status = 400 /\ resp'.access_token = None
    /\ oauth_codes' = oauth_codes /\ oauth_tokens' = oauth_tokens

\* C22: a token request whose grant_type is neither authorization_code nor
\* refresh_token fails with the error unsupported_grant_type; it, a code grant
\* without code or redirect_uri and a refresh grant without refresh_token consume
\* no code and create or revoke no token
C22_UnsupportedGrant ==
    [][RefusedStep =>
        /\ RefusedChangesNothing
        /\ resp'.req.grant_type \notin {"authorization_code", "refresh_token"}
              => resp'.detail = "unsupported_grant_type"]_vars

\* what holds of the code: the same, with the error text the handler sends
C22_RefusedWithDetail ==
    [][RefusedStep =>
        /\ RefusedChangesNothing
        /\ resp'.req.grant_type \notin {"authorization_code", "refresh_token"}
              => resp'.detail = "Unsupported grant_type"]_vars

\* ---------------------------------------------------------------------------
\* The department gate

\* application a is active, restricts its departments, and that of user u is not
\* among them
GatedFrom(a, u) ==
    /\ applications[a].is_active
    /\ applications[a].allowed_departments # {}
    /\ users[u].department \notin applications[a].allowed_departments

\* a listing leaves out the applications gated from its user
ListGated ==
    (resp'.endpoint = "list_applications" /\ resp' # resp) =>
        \A a \in DOMAIN applications : GatedFrom(a, resp'.user) => a \notin resp'.apps

\* an authorization request of a signed-in user for an application gated from
\* that user, with its registered redirect_uri, is answered with a new code
AuthorizeNotGated ==
    (/\ resp'.endpoint = "authorize" /\ resp' # resp
     /\ resp'.req.current_user \in DOMAIN users
     /\ \E a \in DOMAIN applications :
          /\ applications[a].client_id = resp'.req.client_id
          /\ resp'.req.redirect_uri \in applications[a].redirect_uris
          /\ GatedFrom(a, resp'.req.current_user))
    => /\ resp'.status = 307 /\ resp'.location = resp'.req.redirect_uri
       /\ \E r \in oauth_codes' \ oauth_codes :
             /\ r.code = resp'.query.code
             /\ r.user = resp'.req.current_user
             /\ applications[r.app].client_id = resp'.req.client_id

\* C23: the department gate is list-only: an active application whose
\* allowed_departments is non-empty is absent from the listing of a user whose
\* department is not in it, while authorize for that application by the same
\* signed-in user still mints an authorization code
C23_GateListOnly == [][ListGated /\ AuthorizeNotGated]_vars

\* u2 of Finance obtained a code for application A, which allows IT only
C23_Witness ==
    /\ resp.endpoint = "authorize" /\ resp.status = 307
    /\ resp.req.current_user = "u2" /\ resp.req.client_id = "cA"
    /\ GatedFrom("A", "u2")
    /\ \E r \in oauth_codes : r.user = "u2" /\ r.app = "A" /\ r.code = resp.query.code

\* ---------------------------------------------------------------------------
\* The login history

\* authorize has answered a request that reached its session check: the
\* response_type, the PKCE method, the client and the redirect_uri were accepted
SessionCheckStep ==
    /\ resp'.endpoint = "authorize" /\ resp' # resp
    /\ resp'.req.response_type = "code"
    /\ truthy(resp'.req.code_challenge_method)
          => resp'.req.code_challenge_method \in {"S256", "plain"}
    /\ get_application_by_client_id(applications, resp'.req.client_id) # None
    /\ validate_redirect_uri(
          applications[get_application_by_client_id(applications, resp'.req.client_id)],
          resp'.req.redirect_uri)

\* C24: every authentication attempt appends exactly one LoginHistory row of the
\* matching login_type; in particular each authorize request that reaches the
\* session check, whether it finds a user or an anonymous session, appends
\* exactly one row of type oauth_authorize
C24_LoginLogged ==
    [][SessionCheckStep =>
        \E success \in BOOLEAN, failure_reason \in {None, "anonymous"} :
            login_history' = log_login(login_history, resp'.req.current_user,
                                       "oauth_authorize", success, failure_reason)]_vars

\* what holds of the code: authorize leaves the login history as it is
C24_AuthorizeLogsNothing ==
    [][resp'.endpoint = "authorize" => login_history' = login_history]_vars

\* ---------------------------------------------------------------------------
\* Rejections and the window

\* dispatch has rejected a request: it answered 429 and called nothing
RejectedDispatch == now' = now /\ inflight' = inflight /\ last'.status = 429

\* the window of the entry of (i, k) began more than window_seconds ago
Expired(i, k) == HasEntry(i, k) /\ now - requests[i][k][2] > window_ticks(k)

\* a request that meets the expired entry of its client and class is admitted and
\* starts a new window
ExpiredAdmits ==
    \A i \in IPs, k \in LimitKeys :
        (Expired(i, k) /\ now' = now /\ inflight' > inflight
            /\ last'.ip = i /\ last'.key = k)
        => /\ last'.status = 200 /\ inflight' = inflight + 1
           /\ HasEntry(i, k)' /\ requests'[i][k] = <<1, now>>

\* C25: a rejected request leaves the limiter table, and so the count and the
\* window start of its entry, unchanged; rejections never extend the window, so
\* the first request of the client that arrives more than 60 seconds after the
\* window's first request is admitted, whatever was rejected in between
C25_RejectionsKeepWindow ==
    [][/\ RejectedDispatch => requests' = requests
       /\ ExpiredAdmits
       /\ (now' = now /\ last'.key \in LimitKeys /\ Expired(last'.ip, last'.key))
             => last'.status # 429 \/ last' = last]_vars

\* a request was rejected at the last instant of a used-up window, 60 seconds
\* after its first request, and the entry still holds that first request's time
C25_Witness ==
    /\ last.status = 429 /\ last.retry_after = 1
    /\ HasEntry(last.ip, last.key)
    /\ requests[last.ip][last.key] = <<max_requests(last.key), 0>>
    /\ now = window_ticks(last.key)

\* ---------------------------------------------------------------------------
\* The sweep of the limiter table

\* every request got the answer, status and Retry-After, of the limiter that
\* never sweeps
SweepSameAnswer == last = alone.last

\* an entry that leaves the table began its window more than 2 x 60 seconds ago,
\* and the entries that stay are those of the limiter that never sweeps
SweepsOldOnly ==
    \A i \in IPs, k \in LimitKeys :
        /\ (HasEntry(i, k) /\ ~HasEntry(i, k)')
              => now - requests[i][k][2] > 2 * 60 * TicksPerSecond
        /\ HasEntry(i, k)' => <<requests'[i][k]>> = entry_of(alone'.requests, i, k)

\* C26: the sweep removes only entries whose window started more than 2 x 60
\* seconds ago and never changes an admission decision: with sweeps run in any of
\* the admitted requests, the limiter admits and rejects exactly the requests,
\* with the same Retry-After values, that the limiter without sweeps does
C26_SweepChangesNoDecision == []SweepSameAnswer /\ [][SweepsOldOnly]_vars

\* a sweep has removed an entry the limiter without sweeps still holds, and the
\* request that ran it was admitted in both
C26_Witness ==
    /\ last.status = 200 /\ alone.last.status = 200
    /\ \E i \in IPs, k \in LimitKeys :
          ~HasEntry(i, k) /\ entry_of(alone.requests, i, k) # <<>>

\* ---------------------------------------------------------------------------
\* Administrators and their own privileges

\* a user update or a bulk action that was not refused has been answered
UserRequestAnswered ==
    /\ tasks # tasks' /\ tasks' = <<>>
    /\ resp'.endpoint \in {"update_user", "bulk_user_action"}

\* a user update or a bulk action has been refused with 400
UserRequestRefused ==
    /\ resp' # resp /\ tasks' = tasks
    /\ resp'.endpoint \in {"update_user", "bulk_user_action"}
    /\ resp'.status = 400

\* C27: no admin request strips the acting admin's own privileges: after a user
\* update or a bulk action issued by admin X, X is still is_admin and still
\* is_active, and a request refused with 400 changes no user
C27_KeepsOwnPrivileges ==
    [][/\ UserRequestAnswered =>
             /\ users'[resp'.args.admin].is_admin
             /\ users'[resp'.args.admin].is_active
       /\ UserRequestRefused => users' = users]_vars

\* what holds of the code: the acting admin stays an administrator, and a
\* refused request changes no user
C27_KeepsOwnAdminFlag ==
    [][/\ UserRequestAnswered => users'[resp'.args.admin].is_admin
       /\ UserRequestRefused => users' = users]_vars

\* C28: starting with at least one admin, after any interleaving of concurrent
\* update_user and bulk_user_action requests issued by admins, each authorized
\* as admin when it starts, at least one user with is_admin = true remains
C28_AnAdminRemains == \E u \in DOMAIN users : users[u].is_admin


\* the applications that were deleted for good
Deleted == DOMAIN ProvisionedApps \ DOMAIN applications

\* a row of the three tables names the application
Referenced(a) ==
    \/ \E r \in oauth_codes : r.app = a
    \/ \E r \in oauth_tokens : r.app = a
    \/ \E r \in access : r.app = a

\* C29: once DELETE /api/applications/{id} with permanent=true has committed, no
\* code, token or access row names the deleted application, whatever authorize,
\* token and grant requests for it ran while it was being deleted.
C29_NoRowOfDeleted == \A a \in Deleted : ~Referenced(a)

\* a grant for the application that began before the delete committed was refused
\* by the foreign key after it
C29_Witness ==
    /\ "A" \in Deleted
    /\ resp.endpoint = "grant_access" /\ resp.status = 500
    /\ resp.failed_at = "constraint" /\ resp.args.entity_id = "A"


\* the memberships of the groups
memberships(gs) == UNION {{<<g, u>> : u \in gs[g].members} : g \in DOMAIN gs}

\* the elements of one set and not of the other
differing(before, after) == (before \ after) \cup (after \ before)

\* the users, memberships and grants whose stored state differs across the step
ChangedRows ==
    Cardinality({u \in DOMAIN users : users'[u] # users[u]})
        + Cardinality(differing(memberships(groups), memberships(groups')))
        + Cardinality(differing(access, access'))

\* the step answers a counting mutation with 200
CountedStep ==
    /\ tasks # <<>> /\ tasks' = <<>>
    /\ resp'.status = 200
    /\ resp'.endpoint \in {"bulk_user_action", "add_group_members", "grant_access",
                           "revoke_access"}

\* C30: the count a mutation reports ('updated' of bulk_user_action and of
\* add_group_members, 'granted' of grant_access, 'revoked' of revoke_access) is the
\* number of users, memberships or grants whose stored state differs between
\* before and after the call.
C30_CountIsChange == [][CountedStep => resp'.count = ChangedRows]_vars

\* the same for every counted mutation but the removal of group members
C30_CountIsChangeButRemove ==
    [][(CountedStep /\ ~(resp'.endpoint = "add_group_members"
                          /\ resp'.args.action = "remove"))
          => resp'.count = ChangedRows]_vars

=========================================================================
